---------------------------- MODULE Spec2Model ----------------------------
(***************************************************************************)
(* A model of cc-pre-tool-use-hook-judge: the CLI boundary (src/__main__), *)
(* the judgment retry loop (src/judge), the response format checker, the   *)
(* output normalizer and the schema validators (src/schema).               *)
(*                                                                         *)
(* Text is modelled lexically: a text is a sequence of atoms.  An atom is  *)
(* one punctuation character of JSON or markdown ("{", "}", "[", "]", ":", *)
(* ",", the double quote, the backtick), one whitespace character, or a    *)
(* run of other characters (a word such as permissionDecision).  JSON      *)
(* documents are parsed from their atoms by json_loads, which follows      *)
(* Python's json.loads.                                                    *)
(***************************************************************************)
EXTENDS Integers, Sequences, FiniteSets, TLC

(***************************************************************************)
(* src/constants.py                                                        *)
(***************************************************************************)
HOOK_EVENT_NAME == "PreToolUse"

PERMISSION_ALLOW == "allow"

PERMISSION_DENY == "deny"

PERMISSION_ASK == "ask"

\* mutant: the default-allow fallback
DEFAULT_PERMISSION_DECISION_Allow == PERMISSION_ALLOW

DEFAULT_PERMISSION_DECISION == PERMISSION_DENY

DEFAULT_PERMISSION_REASON == "Invalid or missing permission decision from judgment system"

MAX_RETRY_ATTEMPTS == 3

(***************************************************************************)
(* Atoms of text.                                                          *)
(***************************************************************************)
Q == "\""

\* the backtick character (the lexer of TLA+ accepts no backtick in a string)
BACKTICK == "<backtick>"

\* json.decoder.WHITESPACE and str.strip(): space, tab, newline, return
WHITESPACE == {" ", "\t", "\n", "\r"}

\* characters json.loads refuses inside a string literal (strict mode)
CONTROL == {"\t", "\n", "\r"}

\* json.decoder.BACKSLASH: the character an escape sequence stands for
Unescape(c) ==
    CASE c = "\\\"" -> "\""
      [] c = "\\\\" -> "\\"
      [] c = "\\t" -> "\t"
      [] c = "\\n" -> "\n"
      [] c = "\\r" -> "\r"
      [] OTHER -> c

\* mutant: the characters of a string are written as they are
Escape_Nothing(c) == c

\* json.encoder.ESCAPE_DCT: the escape sequence of a character
Escape(c) ==
    CASE c = "\"" -> "\\\""
      [] c = "\\" -> "\\\\"
      [] c = "\t" -> "\\t"
      [] c = "\n" -> "\\n"
      [] c = "\r" -> "\\r"
      [] OTHER -> c

DIGITS == {"0", "1", "2"}

(***************************************************************************)
(* JSON values: tagged records, one field name per type.                   *)
(***************************************************************************)
JNull == [type |-> "null"]

JBool(b) == [type |-> "boolean", b |-> b]

JNumber(n) == [type |-> "number", n |-> n]

\* a string value is the sequence of atoms between its quotes
JString(atoms) == [type |-> "string", s |-> atoms]

JArray(items) == [type |-> "array", a |-> items]

\* an object is a function from keys (sequences of atoms) to values
JObject(f) == [type |-> "object", o |-> f]

EmptyDict == [k \in {} |-> JNull]

\* dict[key] = value: a later pair with the same key replaces the earlier
DictPut(f, key, value) ==
    [k \in (DOMAIN f) \cup {key} |-> IF k = key THEN value ELSE f[k]]

IsDict(v) == v.type = "object"

IsStr(v) == v.type = "string"

Has(v, key) == <<key>> \in DOMAIN v.o

Get(v, key) == v.o[<<key>>]

\* a Python str as a JSON string value of one atom
Str(w) == JString(<<w>>)

(***************************************************************************)
(* json.loads (Python's json.decoder), on atoms.                           *)
(***************************************************************************)
ParseOk(v, next) == [ok |-> TRUE, v |-> v, next |-> next, err |-> ""]

ParseFail(msg, pos) == [ok |-> FALSE, v |-> JNull, next |-> pos, err |-> msg]

RECURSIVE SkipWs(_, _)
SkipWs(s, i) ==
    IF i <= Len(s) /\ s[i] \in WHITESPACE THEN SkipWs(s, i + 1) ELSE i

\* position of the closing quote of the string opened just before i, or 0
RECURSIVE ClosingQuote(_, _)
ClosingQuote(s, i) ==
    IF i > Len(s) THEN 0
    ELSE IF s[i] = Q THEN i
    ELSE ClosingQuote(s, i + 1)

\* scanstring(s, end): s[i-1] is the opening quote
ScanString(s, i) ==
    LET j == ClosingQuote(s, i) IN
    IF j = 0 THEN ParseFail("Unterminated string starting at", i - 1)
    ELSE IF \E k \in i .. (j - 1) : s[k] \in CONTROL
         THEN ParseFail("Invalid control character at", i)
    ELSE ParseOk(JString([k \in 1 .. (j - i) |-> Unescape(s[i + k - 1])]), j + 1)

RECURSIVE ScanOnce(_, _)
RECURSIVE JSONObjectPairs(_, _, _)
RECURSIVE JSONArrayItems(_, _, _)

\* the pairs loop of JSONObject: i is just after the opening quote of a key
JSONObjectPairs(s, i, pairs) ==
    LET key == ScanString(s, i) IN
    IF ~key.ok THEN key
    ELSE LET c == SkipWs(s, key.next) IN
    IF c > Len(s) \/ s[c] # ":" THEN ParseFail("Expecting ':' delimiter", c)
    ELSE LET value == ScanOnce(s, SkipWs(s, c + 1)) IN
    IF ~value.ok THEN value
    ELSE LET e == SkipWs(s, value.next)
             d == DictPut(pairs, key.v.s, value.v) IN
    IF e <= Len(s) /\ s[e] = "}" THEN ParseOk(JObject(d), e + 1)
    ELSE IF e > Len(s) \/ s[e] # "," THEN ParseFail("Expecting ',' delimiter", e)
    ELSE LET n == SkipWs(s, e + 1) IN
    IF n > Len(s) \/ s[n] # Q
    THEN ParseFail("Expecting property name enclosed in double quotes", n)
    ELSE JSONObjectPairs(s, n + 1, d)

\* JSONObject(s, end): i is just after the opening brace
JSONObject(s, i) ==
    LET n == SkipWs(s, i) IN
    IF n <= Len(s) /\ s[n] = "}" THEN ParseOk(JObject(EmptyDict), n + 1)
    ELSE IF n > Len(s) \/ s[n] # Q
    THEN ParseFail("Expecting property name enclosed in double quotes", n)
    ELSE JSONObjectPairs(s, n + 1, EmptyDict)

\* the items loop of JSONArray: i is at the start of an item
JSONArrayItems(s, i, items) ==
    LET value == ScanOnce(s, i) IN
    IF ~value.ok THEN value
    ELSE LET e == SkipWs(s, value.next)
             l == Append(items, value.v) IN
    IF e <= Len(s) /\ s[e] = "]" THEN ParseOk(JArray(l), e + 1)
    ELSE IF e > Len(s) \/ s[e] # "," THEN ParseFail("Expecting ',' delimiter", e)
    ELSE JSONArrayItems(s, SkipWs(s, e + 1), l)

\* JSONArray(s, end): i is just after the opening bracket
JSONArray(s, i) ==
    LET n == SkipWs(s, i) IN
    IF n <= Len(s) /\ s[n] = "]" THEN ParseOk(JArray(<<>>), n + 1)
    ELSE JSONArrayItems(s, n, <<>>)

\* scan_once(s, idx): one JSON value starting at i
ScanOnce(s, i) ==
    IF i > Len(s) THEN ParseFail("Expecting value", i)
    ELSE IF s[i] = Q THEN ScanString(s, i + 1)
    ELSE IF s[i] = "{" THEN JSONObject(s, i + 1)
    ELSE IF s[i] = "[" THEN JSONArray(s, i + 1)
    ELSE IF s[i] = "null" THEN ParseOk(JNull, i + 1)
    ELSE IF s[i] = "true" THEN ParseOk(JBool(TRUE), i + 1)
    ELSE IF s[i] = "false" THEN ParseOk(JBool(FALSE), i + 1)
    ELSE IF s[i] \in DIGITS THEN ParseOk(JNumber(s[i]), i + 1)
    ELSE ParseFail("Expecting value", i)

\* JSONDecoder.decode: leading whitespace, one value, trailing whitespace,
\* then the end of the text ("Extra data" otherwise)
json_loads(s) ==
    LET r == ScanOnce(s, SkipWs(s, 1)) IN
    IF ~r.ok THEN r
    ELSE LET e == SkipWs(s, r.next) IN
         IF e # Len(s) + 1 THEN ParseFail("Extra data", e) ELSE r

(***************************************************************************)
(* The outcome of a call: the value it returns, or the exception it raises *)
(* with its message.  A message is a record: the template it renders and   *)
(* the text it echoes (a sequence of atoms).                               *)
(***************************************************************************)
Message(template, detail) == [template |-> template, detail |-> detail]

NoMessage == Message("", <<>>)

Returns(v) == [raises |-> "none", v |-> v, msg |-> NoMessage]

Raises(exc, msg) == [raises |-> exc, v |-> JNull, msg |-> msg]

(***************************************************************************)
(* src/exceptions.py: the message builders                                 *)
(***************************************************************************)
\* CodeFenceInResponseError.create_message()
CodeFence_create_message == Message("code_fence", <<>>)

\* the apostrophe and the backslash
APOSTROPHE == "'"

BACKSLASH == "\\"

\* repr() of one character of a str, inside the quote chosen
ReprChar(c, quote) ==
    CASE c = BACKSLASH -> "\\\\"
      [] c = quote /\ quote = APOSTROPHE -> "\\'"
      [] c = quote /\ quote = Q -> "\\\""
      [] c = "\n" -> "\\n"
      [] c = "\t" -> "\\t"
      [] c = "\r" -> "\\r"
      [] OTHER -> c

\* repr(s) of a str: in apostrophes, or in double quotes when the text has
\* an apostrophe and no double quote; backslash, the quote, newline, tab
\* and carriage return are written as escape sequences
Repr(s) ==
    LET quote == IF (\E i \in 1 .. Len(s) : s[i] = APOSTROPHE)
                    /\ ~(\E i \in 1 .. Len(s) : s[i] = Q)
                 THEN Q ELSE APOSTROPHE
    IN  <<quote>> \o [i \in 1 .. Len(s) |-> ReprChar(s[i], quote)] \o <<quote>>

\* InvalidJSONPrefixError.create_message(leading_chars):
\* f"... Found: {repr(leading_chars)} ..."
Prefix_create_message(leading_chars) ==
    Message("invalid_prefix", Repr(leading_chars))

\* InvalidJSONSuffixError.create_message(trailing_text):
\* f"... Found: {repr(trailing_text)} ..."
Suffix_create_message(trailing_text) ==
    Message("invalid_suffix", Repr(trailing_text))

(***************************************************************************)
(* src/judge.py: _validate_response_format                                 *)
(***************************************************************************)
RECURSIVE LStrip(_)
LStrip(s) ==
    IF s # <<>> /\ Head(s) \in WHITESPACE THEN LStrip(Tail(s)) ELSE s

RECURSIVE RStrip(_)
RStrip(s) ==
    IF s # <<>> /\ s[Len(s)] \in WHITESPACE
    THEN RStrip(SubSeq(s, 1, Len(s) - 1)) ELSE s

\* mutant: the text is not stripped
Strip_Not(s) == s

\* str.strip()
Strip(s) == RStrip(LStrip(s))

\* re.search(r'```', s)
HasCodeFence(s) ==
    \E i \in 1 .. (Len(s) - 2) :
        s[i] = BACKTICK /\ s[i + 1] = BACKTICK /\ s[i + 2] = BACKTICK

\* mutant: re.search(r'\{', s), an opening brace anywhere
StartsWithBrace_Anywhere(s) == \E i \in 1 .. Len(s) : s[i] = "{"

\* re.match(r'^\s*\{', s)
StartsWithBrace(s) == LET t == LStrip(s) IN t # <<>> /\ Head(t) = "{"

\* mutant: s.find('}'), the first closing brace
RFindBrace_First(s) ==
    IF \E i \in 1 .. Len(s) : s[i] = "}"
    THEN CHOOSE i \in 1 .. Len(s) :
            s[i] = "}" /\ \A j \in 1 .. (i - 1) : s[j] # "}"
    ELSE 0

\* s.rfind('}'), 1-based; 0 when there is none (Python's -1)
RFindBrace(s) ==
    IF \E i \in 1 .. Len(s) : s[i] = "}"
    THEN CHOOSE i \in 1 .. Len(s) :
            s[i] = "}" /\ \A j \in (i + 1) .. Len(s) : s[j] # "}"
    ELSE 0

\* mutant: the whole text, not cut
Take_Whole(s, n) == s

\* s[:n]
Take(s, n) == SubSeq(s, 1, IF Len(s) < n THEN Len(s) ELSE n)

\* text_stripped[:50]
LEADING_CHARS == 50

\* mutant: the prefix and suffix tests come before the code-fence test
validate_response_format_FenceLast(text) ==
    LET text_stripped == Strip(text)
        last_brace_pos == RFindBrace(text_stripped)
        text_after == Strip(SubSeq(text_stripped, last_brace_pos + 1,
                                   Len(text_stripped)))
    IN  IF text_stripped # <<>> /\ ~StartsWithBrace(text_stripped)
        THEN Raises("InvalidJSONPrefixError",
                    Prefix_create_message(Take(text_stripped, LEADING_CHARS)))
        ELSE IF last_brace_pos # 0 /\ text_after # <<>>
        THEN Raises("InvalidJSONSuffixError", Suffix_create_message(text_after))
        ELSE IF HasCodeFence(text_stripped)
        THEN Raises("CodeFenceInResponseError", CodeFence_create_message)
        ELSE Returns(JNull)

\* _validate_response_format(text): returns None or raises
validate_response_format(text) ==
    LET text_stripped == Strip(text)
        last_brace_pos == RFindBrace(text_stripped)
        text_after == Strip(SubSeq(text_stripped, last_brace_pos + 1,
                                   Len(text_stripped)))
    IN  IF HasCodeFence(text_stripped)
        THEN Raises("CodeFenceInResponseError", CodeFence_create_message)
        ELSE IF text_stripped # <<>> /\ ~StartsWithBrace(text_stripped)
        THEN Raises("InvalidJSONPrefixError",
                    Prefix_create_message(Take(text_stripped, LEADING_CHARS)))
        ELSE IF last_brace_pos # 0 /\ text_after # <<>>
        THEN Raises("InvalidJSONSuffixError", Suffix_create_message(text_after))
        ELSE Returns(JNull)

(***************************************************************************)
(* src/judge.py: _wrap_output_if_needed                                    *)
(***************************************************************************)
\* `"hookSpecificOutput" in output_data` for a str: a substring test
\* (the key is one atom, so it is a substring iff it is one of the atoms)
InStr(key, atoms) == \E i \in 1 .. Len(atoms) : atoms[i] = key

\* `"hookSpecificOutput" in output_data` for a list: equality with an item
InList(key, items) == \E i \in 1 .. Len(items) : items[i] = Str(key)

\* mutant: `output_data.get(key) or default`, the default also when the
\* value is null
DictGet_OrDefault(output_data, key, default) ==
    IF Has(output_data, key) /\ Get(output_data, key) # JNull
    THEN Get(output_data, key) ELSE default

\* output_data.get(key, default)
DictGet(output_data, key, default) ==
    IF Has(output_data, key) THEN Get(output_data, key) ELSE default

\* {"hookSpecificOutput": {"hookEventName": ..., "permissionDecision": ...,
\*  "permissionDecisionReason": ...}}
Envelope(decision, reason) ==
    JObject((<<"hookSpecificOutput">> :> JObject(
        (<<"hookEventName">> :> Str(HOOK_EVENT_NAME))
        @@ (<<"permissionDecision">> :> decision)
        @@ (<<"permissionDecisionReason">> :> reason))))

\* mutant: the parsed value is handed on as it is, never wrapped
wrap_output_if_needed_Identity(output_data) == Returns(output_data)

\* mutant: the envelope is added to the bare object, whose other fields
\* stay at the top level
wrap_output_if_needed_KeepSiblings(output_data) ==
    IF IsDict(output_data) /\ ~Has(output_data, "hookSpecificOutput")
    THEN Returns(JObject(
            Envelope(DictGet(output_data, "permissionDecision",
                             Str(DEFAULT_PERMISSION_DECISION)),
                     DictGet(output_data, "permissionDecisionReason",
                             Str(DEFAULT_PERMISSION_REASON))).o
            @@ [k \in DOMAIN output_data.o
                      \ {<<"permissionDecision">>, <<"permissionDecisionReason">>} |->
                  output_data.o[k]]))
    ELSE Returns(output_data)

wrap_output_if_needed(output_data) ==
    CASE IsDict(output_data) ->
            IF ~Has(output_data, "hookSpecificOutput")
            THEN Returns(Envelope(
                    DictGet(output_data, "permissionDecision",
                            Str(DEFAULT_PERMISSION_DECISION)),
                    DictGet(output_data, "permissionDecisionReason",
                            Str(DEFAULT_PERMISSION_REASON))))
            ELSE Returns(output_data)
      [] output_data.type = "string" ->
            \* str has no .get
            IF ~InStr("hookSpecificOutput", output_data.s)
            THEN Raises("AttributeError", Message("no_attribute_get", <<"str">>))
            ELSE Returns(output_data)
      [] output_data.type = "array" ->
            \* list has no .get
            IF ~InList("hookSpecificOutput", output_data.a)
            THEN Raises("AttributeError", Message("no_attribute_get", <<"list">>))
            ELSE Returns(output_data)
      [] OTHER ->
            \* `in` on None, a bool, an int: the argument is not iterable
            Raises("TypeError", Message("not_iterable", <<output_data.type>>))

(***************************************************************************)
(* src/schema.py: the schemas.  A schema is a record of its keywords;      *)
(* "properties" is the sequence of <<name, schema>> in the order written.  *)
(***************************************************************************)
\* mutant: hookSpecificOutput admits properties the schema does not name
PRETOOLUSE_OUTPUT_SCHEMA_OpenEnvelope ==
    [type |-> "object",
     required |-> <<"hookSpecificOutput">>,
     properties |-> <<
        <<"hookSpecificOutput",
          [type |-> "object",
           required |-> <<"hookEventName", "permissionDecision",
                          "permissionDecisionReason">>,
           properties |-> <<
              <<"hookEventName", [type |-> "string", const |-> Str("PreToolUse")]>>,
              <<"permissionDecision",
                [type |-> "string",
                 enum |-> <<Str("allow"), Str("deny"), Str("ask")>>]>>,
              <<"permissionDecisionReason", [type |-> "string"]>>,
              <<"updatedInput", [type |-> "object"]>> >>,
           additionalProperties |-> TRUE]>>,
        <<"continue", [type |-> "boolean"]>>,
        <<"stopReason", [type |-> "string"]>>,
        <<"suppressOutput", [type |-> "boolean"]>>,
        <<"systemMessage", [type |-> "string"]>> >>,
     additionalProperties |-> TRUE]

PRETOOLUSE_OUTPUT_SCHEMA ==
    [type |-> "object",
     required |-> <<"hookSpecificOutput">>,
     properties |-> <<
        <<"hookSpecificOutput",
          [type |-> "object",
           required |-> <<"hookEventName", "permissionDecision",
                          "permissionDecisionReason">>,
           properties |-> <<
              <<"hookEventName", [type |-> "string", const |-> Str("PreToolUse")]>>,
              <<"permissionDecision",
                [type |-> "string",
                 enum |-> <<Str("allow"), Str("deny"), Str("ask")>>]>>,
              <<"permissionDecisionReason", [type |-> "string"]>>,
              <<"updatedInput", [type |-> "object"]>> >>,
           additionalProperties |-> FALSE]>>,
        <<"continue", [type |-> "boolean"]>>,
        <<"stopReason", [type |-> "string"]>>,
        <<"suppressOutput", [type |-> "boolean"]>>,
        <<"systemMessage", [type |-> "string"]>> >>,
     additionalProperties |-> TRUE]

PRETOOLUSE_INPUT_SCHEMA ==
    [type |-> "object",
     required |-> <<"session_id", "transcript_path", "cwd", "permission_mode",
                    "hook_event_name", "tool_name", "tool_input">>,
     properties |-> <<
        <<"session_id", [type |-> "string"]>>,
        <<"transcript_path", [type |-> "string"]>>,
        <<"cwd", [type |-> "string"]>>,
        <<"permission_mode",
          [type |-> "string",
           enum |-> <<Str("default"), Str("plan"), Str("acceptEdits"),
                      Str("bypassPermissions")>>]>>,
        <<"hook_event_name", [type |-> "string", const |-> Str("PreToolUse")]>>,
        <<"tool_name", [type |-> "string"]>>,
        <<"tool_input", [type |-> "object"]>> >>,
     additionalProperties |-> TRUE]

\* the allow-list of model identifiers, in the order written
CONFIG_MODELS ==
    <<Str("default"), Str("sonnet"), Str("opus"), Str("haiku"),
      Str("claude-opus-4-1-20250805"), Str("claude-opus-4-20250514"),
      Str("claude-sonnet-4-5-20250929"), Str("claude-sonnet-4-20250514"),
      Str("claude-haiku-4-5-20251001"),
      Str("claude-opus-4-1"), Str("claude-opus-4-0"), Str("claude-sonnet-4-5"),
      Str("claude-sonnet-4-0"), Str("claude-haiku-4-5"),
      Str("claude-3-7-sonnet-20250219"), Str("claude-3-7-sonnet-latest"),
      Str("claude-3-5-haiku-20241022"), Str("claude-3-5-haiku-latest")>>

CONFIG_YAML_SCHEMA ==
    [type |-> "object",
     required |-> <<"prompt">>,
     properties |-> <<
        <<"prompt", [type |-> "string"]>>,
        <<"model", [type |-> "string", enum |-> CONFIG_MODELS]>>,
        <<"allowed_tools", [type |-> "array", items |-> [type |-> "string"]]>> >>,
     additionalProperties |-> FALSE]

(***************************************************************************)
(* src/schema.py: _validate_with_schema, that is jsonschema.validate: the  *)
(* errors of an instance in the order the validator yields them (keyword   *)
(* by keyword in the order of the schema, properties in their order), and  *)
(* best_match's choice among them.                                         *)
(***************************************************************************)
SchemaHas(schema, keyword) == keyword \in DOMAIN schema

ValidationError(depth, validator, what) ==
    [depth |-> depth, validator |-> validator, what |-> what]

PropertyNames(schema) ==
    IF SchemaHas(schema, "properties")
    THEN {schema.properties[i][1] : i \in 1 .. Len(schema.properties)}
    ELSE {}

InSeq(x, seq) == \E i \in 1 .. Len(seq) : seq[i] = x

RECURSIVE iter_errors(_, _, _)
RECURSIVE PropertiesErrors(_, _, _, _)
RECURSIVE ItemsErrors(_, _, _, _)

\* the "items" keyword: each item of a list is checked one level down
ItemsErrors(items, schema, i, depth) ==
    IF i > Len(items) THEN <<>>
    ELSE iter_errors(items[i], schema, depth + 1)
         \o ItemsErrors(items, schema, i + 1, depth)

\* the "properties" keyword: each property present is checked one level down
PropertiesErrors(instance, properties, i, depth) ==
    IF i > Len(properties) THEN <<>>
    ELSE (IF Has(instance, properties[i][1])
          THEN iter_errors(Get(instance, properties[i][1]), properties[i][2],
                           depth + 1)
          ELSE <<>>)
         \o PropertiesErrors(instance, properties, i + 1, depth)

iter_errors(instance, schema, depth) ==
    (IF SchemaHas(schema, "type") /\ instance.type # schema.type
     THEN <<ValidationError(depth, "type", schema.type)>> ELSE <<>>)
    \o
    (IF SchemaHas(schema, "required") /\ IsDict(instance)
     THEN SelectSeq([i \in 1 .. Len(schema.required) |->
                        ValidationError(depth, "required", schema.required[i])],
                    LAMBDA e : ~Has(instance, e.what))
     ELSE <<>>)
    \o
    (IF SchemaHas(schema, "properties") /\ IsDict(instance)
     THEN PropertiesErrors(instance, schema.properties, 1, depth) ELSE <<>>)
    \o
    (IF SchemaHas(schema, "additionalProperties") /\ IsDict(instance)
        /\ ~schema.additionalProperties
        /\ \E k \in DOMAIN instance.o :
              Len(k) # 1 \/ k[1] \notin PropertyNames(schema)
     THEN <<ValidationError(depth, "additionalProperties", "unexpected")>>
     ELSE <<>>)
    \o
    (IF SchemaHas(schema, "const") /\ instance # schema.const
     THEN <<ValidationError(depth, "const", schema.const.s[1])>> ELSE <<>>)
    \o
    (IF SchemaHas(schema, "enum") /\ ~InSeq(instance, schema.enum)
     THEN <<ValidationError(depth, "enum", "not_one_of")>> ELSE <<>>)
    \o
    (IF SchemaHas(schema, "items") /\ instance.type = "array"
     THEN ItemsErrors(instance.a, schema.items, 1, depth) ELSE <<>>)

\* mutant: the deepest error, and among equally deep ones the last yielded
best_match_Deepest(errors) ==
    LET i == CHOOSE i \in 1 .. Len(errors) :
                /\ \A j \in 1 .. Len(errors) : errors[j].depth <= errors[i].depth
                /\ \A j \in (i + 1) .. Len(errors) : errors[j].depth < errors[i].depth
    IN  errors[i]

\* best_match: the most relevant error is the shallowest one, and among
\* equally deep ones the first yielded
best_match(errors) ==
    LET i == CHOOSE i \in 1 .. Len(errors) :
                /\ \A j \in 1 .. Len(errors) : errors[j].depth >= errors[i].depth
                /\ \A j \in 1 .. (i - 1) : errors[j].depth > errors[i].depth
    IN  errors[i]

\* mutant: a validator that marks the document it accepted
validate_with_schema_Stamped(data, schema) ==
    LET errors == iter_errors(data, schema, 0) IN
    IF errors = <<>>
    THEN Returns(IF IsDict(data)
                 THEN JObject((<<"validated">> :> JBool(TRUE)) @@ data.o)
                 ELSE data)
    ELSE LET e == best_match(errors) IN
         Raises("ValueError", Message(e.validator, <<e.what>>))

\* returns the data unchanged, or raises ValueError(str(e.message))
validate_with_schema(data, schema) ==
    LET errors == iter_errors(data, schema, 0) IN
    IF errors = <<>> THEN Returns(data)
    ELSE LET e == best_match(errors) IN
         Raises("ValueError", Message(e.validator, <<e.what>>))

validate_pretooluse_input(data) == validate_with_schema(data, PRETOOLUSE_INPUT_SCHEMA)

\* mutant: the output is returned without being validated
validate_pretooluse_output_Skipped(data) == Returns(data)

validate_pretooluse_output(data) == validate_with_schema(data, PRETOOLUSE_OUTPUT_SCHEMA)

validate_config_yaml(data) == validate_with_schema(data, CONFIG_YAML_SCHEMA)


(***************************************************************************)
(* json.dumps(value, ensure_ascii=False, indent=2) (src/__main__.py), on   *)
(* atoms: members one per line, indented two spaces per level.             *)
(***************************************************************************)
RECURSIVE Spaces(_)
Spaces(n) == IF n = 0 THEN <<>> ELSE <<" ">> \o Spaces(n - 1)

INDENT == 2

NewlineIndent(level) == <<"\n">> \o Spaces(INDENT * level)

\* py_encode_basestring
EncodeString(atoms) ==
    <<Q>> \o [k \in 1 .. Len(atoms) |-> Escape(atoms[k])] \o <<Q>>

RECURSIVE json_dumps_level(_, _)
RECURSIVE DumpMembers(_, _, _)
RECURSIVE DumpItems(_, _, _)

\* the members of a dict, keys taken in a fixed order
DumpMembers(f, keys, level) ==
    LET k == CHOOSE k \in keys : TRUE
        member == NewlineIndent(level) \o EncodeString(k) \o <<":", " ">>
                  \o json_dumps_level(f[k], level)
    IN  IF keys = {k} THEN member
        ELSE member \o <<",">> \o DumpMembers(f, keys \ {k}, level)

DumpItems(items, i, level) ==
    LET item == NewlineIndent(level) \o json_dumps_level(items[i], level) IN
    IF i = Len(items) THEN item
    ELSE item \o <<",">> \o DumpItems(items, i + 1, level)

json_dumps_level(v, level) ==
    CASE v.type = "object" ->
            IF DOMAIN v.o = {} THEN <<"{", "}">>
            ELSE <<"{">> \o DumpMembers(v.o, DOMAIN v.o, level + 1)
                 \o NewlineIndent(level) \o <<"}">>
      [] v.type = "array" ->
            IF v.a = <<>> THEN <<"[", "]">>
            ELSE <<"[">> \o DumpItems(v.a, 1, level + 1)
                 \o NewlineIndent(level) \o <<"]">>
      [] v.type = "string" -> EncodeString(v.s)
      [] v.type = "number" -> <<v.n>>
      [] v.type = "boolean" -> IF v.b THEN <<"true">> ELSE <<"false">>
      [] OTHER -> <<"null">>

json_dumps(v) == json_dumps_level(v, 0)


(***************************************************************************)
(* The file system the configuration is read from.  The content of a file  *)
(* is what yaml.safe_load makes of it: a syntax error, or a document (null *)
(* for an empty file).                                                     *)
(***************************************************************************)
File(exists, readable, yaml_ok, data) ==
    [exists |-> exists, readable |-> readable, decodable |-> TRUE,
     yaml_ok |-> yaml_ok, data |-> data]

\* a file that can be read but whose bytes are no text in the encoding of
\* the locale
BinaryFile ==
    [exists |-> TRUE, readable |-> TRUE, decodable |-> FALSE,
     yaml_ok |-> FALSE, data |-> JNull]

Dict1(k, v) == JObject(<<k>> :> v)

Dict2(k1, v1, k2, v2) == JObject((<<k1>> :> v1) @@ (<<k2>> :> v2))

Dict3(k1, v1, k2, v2, k3, v3) ==
    JObject((<<k1>> :> v1) @@ (<<k2>> :> v2) @@ (<<k3>> :> v3))

FileSystem ==
    ("full.yaml" :> File(TRUE, TRUE, TRUE,
            Dict3("prompt", Str("rules"), "model", Str("haiku"),
                  "allowed_tools", JArray(<<Str("Bash"), Str("Read")>>))))
    @@ ("missing.yaml" :> File(FALSE, FALSE, FALSE, JNull))
    @@ ("unreadable.yaml" :> File(TRUE, FALSE, FALSE, JNull))
    @@ ("broken.yaml" :> File(TRUE, TRUE, FALSE, JNull))
    @@ ("empty.yaml" :> File(TRUE, TRUE, TRUE, JNull))
    @@ ("noprompt.yaml" :> File(TRUE, TRUE, TRUE, Dict1("model", Str("haiku"))))
    @@ ("badmodel.yaml" :> File(TRUE, TRUE, TRUE,
            Dict2("prompt", Str("rules"), "model", Str("gpt"))))
    @@ ("extrakey.yaml" :> File(TRUE, TRUE, TRUE,
            Dict2("prompt", Str("rules"), "timeout", JNumber("1"))))
    @@ ("list.yaml" :> File(TRUE, TRUE, TRUE, JArray(<<Str("prompt")>>)))
    @@ ("binary.yaml" :> BinaryFile)

\* the packaged builtin_configs/<name>.yaml
BuiltinConfigs ==
    ("validate_bq_query" :> File(TRUE, TRUE, TRUE, Dict1("prompt", Str("bq_rules"))))

(***************************************************************************)
(* src/config.py                                                           *)
(***************************************************************************)
\* the tail shared by load_config and load_builtin_config: parse, refuse an
\* empty document, validate
LoadYaml(file, name) ==
    IF ~file.yaml_ok
    THEN Raises("ConfigError", Message("failed_to_parse", <<name>>))
    ELSE IF file.data = JNull
    THEN Raises("ConfigError", Message("is_empty", <<name>>))
    ELSE LET validated == validate_config_yaml(file.data) IN
         IF validated.raises = "ValueError"
         THEN Raises("ConfigError",
                     Message("validation_failed", <<name>> \o validated.msg.detail))
         ELSE validated

load_config(path) ==
    LET file == FileSystem[path] IN
    IF ~file.exists
    THEN Raises("ConfigError", Message("not_found", <<path>>))
    ELSE IF ~file.readable
    THEN Raises("ConfigError", Message("failed_to_read", <<path>>))
    ELSE IF ~file.decodable
    THEN \* path.read_text() raises UnicodeDecodeError, which is a ValueError
         \* and neither a yaml.YAMLError nor an OSError
         Raises("UnicodeDecodeError", Message("cannot_decode", <<path>>))
    ELSE LoadYaml(file, path)

load_builtin_config(name) ==
    IF name \notin DOMAIN BuiltinConfigs
    THEN Raises("ConfigError", Message("builtin_not_found", <<name>>))
    ELSE LoadYaml(BuiltinConfigs[name], name)

(***************************************************************************)
(* src/__main__.py                                                         *)
(***************************************************************************)
create_error_output(reason) == Envelope(Str(PERMISSION_DENY), JString(reason))

\* argparse: args.config is the path given, or "None"
Namespace(config) == [config |-> config]

\* parse_args(): --config PATH is the only option; -h/--help prints the
\* help and exits 0, anything else is an error that exits 2 (SystemExit)
parse_args(argv) ==
    IF argv = <<>> THEN [raises |-> "none", v |-> Namespace("None"), code |-> 0]
    ELSE IF Len(argv) = 2 /\ argv[1] = "--config"
    THEN [raises |-> "none", v |-> Namespace(argv[2]), code |-> 0]
    ELSE IF argv[1] \in {"-h", "--help"}
    THEN [raises |-> "SystemExit", v |-> Namespace("None"), code |-> 0]
    ELSE [raises |-> "SystemExit", v |-> Namespace("None"), code |-> 2]

\* ValueError and the subclasses of it that reach main()
ValueErrors == {"ValueError", "UnicodeDecodeError"}

\* the exception classes that are not subclasses of Exception
BaseExceptionsOnly == {"SystemExit", "KeyboardInterrupt", "CancelledError"}

REASON_INVALID_JSON == "judge_could_not_answer_in_valid_JSON"

REASON_NO_RESPONSE == "no_response_from_judge"

REASON_SCHEMA == "judge_could_not_answer_in_schema_format"

REASON_CONFIG == "config_load_error:"

REASON_INPUT == "input_validation_error:"

REASON_UNEXPECTED == "unexpected_error:"

\* str(e)
StrOf(e) == <<e.msg.template>> \o e.msg.detail

\* mutant: main() without its `except ValueError` clause
ErrorReason_NoValueErrorClause(e) ==
    CASE e.raises = "InvalidJSONError" -> <<REASON_INVALID_JSON>>
      [] e.raises = "NoResponseError" -> <<REASON_NO_RESPONSE>>
      [] e.raises = "SchemaValidationError" -> <<REASON_SCHEMA>>
      [] e.raises = "ConfigError" -> <<REASON_CONFIG>> \o StrOf(e)
      [] OTHER -> <<REASON_UNEXPECTED>> \o StrOf(e)

\* the except clauses of main(), first match first: the reason of the deny
\* document printed for exception e (a subclass of Exception)
ErrorReason(e) ==
    CASE e.raises = "InvalidJSONError" -> <<REASON_INVALID_JSON>>
      [] e.raises = "NoResponseError" -> <<REASON_NO_RESPONSE>>
      [] e.raises = "SchemaValidationError" -> <<REASON_SCHEMA>>
      [] e.raises = "ConfigError" -> <<REASON_CONFIG>> \o StrOf(e)
      [] e.raises \in ValueErrors -> <<REASON_INPUT>> \o StrOf(e)
      [] OTHER -> <<REASON_UNEXPECTED>> \o StrOf(e)


(***************************************************************************)
(* The texts the environment supplies: the replies of the LLM and the      *)
(* documents on stdin, written atom by atom.                               *)
(***************************************************************************)
\* "w"
Lit(w) == <<Q, w, Q>>

\* "key": value
Pair(key, value) == Lit(key) \o <<":", " ">> \o value

Braces(members) == <<"{">> \o members \o <<"}">>

Comma(a, b) == a \o <<",", " ">> \o b

FENCE == <<BACKTICK, BACKTICK, BACKTICK>>

Decision(decision) == Pair("permissionDecision", Lit(decision))

Reason(reason) == Pair("permissionDecisionReason", Lit(reason))

EventName == Pair("hookEventName", Lit("PreToolUse"))

Wrapped(members) == Braces(Pair("hookSpecificOutput", Braces(members)))

BareAllow == Braces(Comma(Decision("allow"), Reason("safe")))

BareDeny == Braces(Comma(Decision("deny"), Reason("unsafe")))

BareAllowNoReason == Braces(Decision("allow"))

BareMaybe == Braces(Comma(Decision("maybe"), Reason("safe")))

BareWithUpdate ==
    Braces(Comma(Comma(Decision("allow"), Reason("safe")),
                 Comma(Pair("updatedInput", Braces(Pair("command", Lit("ls")))),
                       Pair("continue", <<"true">>))))

EmptyObject == <<"{", "}">>

EnvAllow == Wrapped(Comma(EventName, Comma(Decision("allow"), Reason("safe"))))

EnvDeny == Wrapped(Comma(EventName, Comma(Decision("deny"), Reason("unsafe"))))

EnvNoReason == Wrapped(Comma(EventName, Decision("allow")))

EnvWithSiblings ==
    Braces(Comma(
        Pair("hookSpecificOutput",
             Braces(Comma(Comma(EventName, Comma(Decision("allow"), Reason("safe"))),
                          Pair("updatedInput", Braces(Pair("command", Lit("ls"))))))),
        Comma(Pair("continue", <<"true">>), Pair("systemMessage", Lit("note")))))

Fenced == FENCE \o <<"json", "\n">> \o BareAllow \o <<"\n">> \o FENCE

Prefixed == <<"Sure!", " ">> \o BareAllow

Suffixed == BareAllow \o <<"\n", "Hope", " ", "this", " ", "helps!">>

Padded == <<" ", "\n">> \o BareAllow \o <<"\n">>

\* a valid decision whose reason quotes a code fence
FenceInReason ==
    Braces(Comma(Decision("deny"),
                 Pair("permissionDecisionReason",
                      <<Q, "found", " ">> \o FENCE \o <<Q>>)))

WhitespaceOnly == <<" ", "\n", "\t">>

JsonArray == <<"[", "1", "]">>

JsonNull == <<"null">>

JsonStringOfKey == Lit("hookSpecificOutput")

\* the replies of the LLM: decisions the loop returns, replies it retries
\* on, and replies that are JSON but no object
ReplyTexts ==
    { BareAllow, BareDeny, BareAllowNoReason, BareWithUpdate, EmptyObject,
      EnvAllow, EnvWithSiblings, FenceInReason, Padded,
      <<>>, WhitespaceOnly, Fenced, Prefixed, Suffixed, EnvNoReason, BareMaybe,
      JsonStringOfKey,
      JsonArray, JsonNull }

(***************************************************************************)
(* The turns of the LLM client: a turn is the sequence of messages that    *)
(* receive_response() yields, ended by a ResultMessage.                    *)
(***************************************************************************)
TextBlock(text) == [type |-> "TextBlock", text |-> text]

ToolUseBlock == [type |-> "ToolUseBlock", text |-> <<>>]

ThinkingBlock(thinking) == [type |-> "ThinkingBlock", text |-> thinking]

AssistantMessage(content) == [type |-> "AssistantMessage", content |-> content]

UserMessage(content) == [type |-> "UserMessage", content |-> content]

SystemMessage == [type |-> "SystemMessage", content |-> <<>>]

ResultMessage == [type |-> "ResultMessage", content |-> <<>>]

\* the whole text in one block of one assistant message
PlainTurn(text) == <<AssistantMessage(<<TextBlock(text)>>), ResultMessage>>

\* the largest number of atoms a reply's first block is cut after
MaxSplit == 2

\* the text cut after k atoms into two text blocks of one message, and
\* into two assistant messages
SplitTurns(text) ==
    UNION { { <<AssistantMessage(<<TextBlock(SubSeq(text, 1, k)),
                                   TextBlock(SubSeq(text, k + 1, Len(text)))>>),
                ResultMessage>>,
              <<AssistantMessage(<<TextBlock(SubSeq(text, 1, k))>>),
                AssistantMessage(<<TextBlock(SubSeq(text, k + 1, Len(text)))>>),
                ResultMessage>> } : k \in 1 .. MaxSplit }

\* turns with blocks and messages that carry no reply text
MixedTurns ==
    { <<SystemMessage,
        AssistantMessage(<<ThinkingBlock(BareDeny), TextBlock(BareAllow)>>),
        ResultMessage>>,
      <<AssistantMessage(<<ToolUseBlock>>),
        UserMessage(<<TextBlock(BareAllow)>>),
        ResultMessage>> }

Turns ==
    {PlainTurn(text) : text \in ReplyTexts} \cup SplitTurns(EnvDeny) \cup MixedTurns

\* documents on stdin
ValidInput ==
    Braces(Comma(Pair("session_id", Lit("s1")),
           Comma(Pair("transcript_path", Lit("/t")),
           Comma(Pair("cwd", Lit("/w")),
           Comma(Pair("permission_mode", Lit("default")),
           Comma(Pair("hook_event_name", Lit("PreToolUse")),
           Comma(Pair("tool_name", Lit("Write")),
                 Pair("tool_input", Braces(Pair("file_path", Lit("/w/a"))))))))))) 

\* a valid input with a field the schema does not name
ValidInputExtra ==
    SubSeq(ValidInput, 1, Len(ValidInput) - 1)
    \o <<",", " ">> \o Pair("future_field", <<"1">>) \o <<"}">>

InputNoToolName ==
    Braces(Comma(Pair("session_id", Lit("s1")),
           Comma(Pair("transcript_path", Lit("/t")),
           Comma(Pair("cwd", Lit("/w")),
           Comma(Pair("permission_mode", Lit("default")),
           Comma(Pair("hook_event_name", Lit("PreToolUse")),
                 Pair("tool_input", Braces(Pair("file_path", Lit("/w/a")))))))))) 

InputBadMode ==
    Braces(Comma(Pair("session_id", Lit("s1")),
           Comma(Pair("transcript_path", Lit("/t")),
           Comma(Pair("cwd", Lit("/w")),
           Comma(Pair("permission_mode", Lit("yolo")),
           Comma(Pair("hook_event_name", Lit("PreToolUse")),
           Comma(Pair("tool_name", Lit("Write")),
                 Pair("tool_input", Braces(Pair("file_path", Lit("/w/a"))))))))))) 

StdinTexts ==
    { ValidInput, ValidInputExtra, InputNoToolName, InputBadMode,
      <<>>, <<"not", " ", "json">>, JsonArray, JsonNull, EmptyObject }

\* command lines
ArgvSet ==
    { <<>>, <<"--help">>, <<"--bogus">>, <<"--config">>, <<"input.json">> }
    \cup { <<"--config", path>> : path \in DOMAIN FileSystem }


(***************************************************************************)
(* State                                                                   *)
(***************************************************************************)
VARIABLES
    pc,             \* where main() stands
    args,           \* the parsed command line
    config,         \* the configuration document main() loaded
    custom_prompt,  \* config.get("prompt")
    input_data,     \* the validated input document
    options,        \* the ClaudeAgentOptions of the session
    session,        \* the LLM session: "none", "open", "closed"
    opened,         \* how many sessions were opened
    attempt,        \* the loop variable of the retry loop
    next_msg,       \* the query to send next
    inflight,       \* the messages of the current turn not yet received
    response_text,  \* the text collected from the current turn
    log,            \* the queries sent and the turns received, in order
    outcome,        \* what judge_pretooluse returned or raised
    stdout,         \* the texts printed
    exit_status,    \* the exit status of the process, -1 while it runs
    escaped,        \* the exception that left main(), or "none"
    caught,         \* the exception an except clause of main() handled
    fn,             \* the function called directly, "none" when main() runs
    argument,       \* the argument of that call
    result,         \* what that call returned or raised
    tasks           \* the local state of each of the judgment calls run side by side

vars == <<pc, args, config, custom_prompt, input_data, options, session, opened, attempt,
          next_msg, inflight, response_text, log, outcome, stdout, exit_status,
          escaped, caught, fn, argument, result, tasks>>

mainVars == <<args, config, custom_prompt, input_data>>

judgeVars == <<options, session, opened, attempt, next_msg, inflight,
               response_text, log, outcome>>

exitVars == <<stdout, exit_status, escaped, caught>>

callVars == <<fn, argument, result, tasks>>

Pending == [raises |-> "pending", v |-> JNull, msg |-> NoMessage]

Unset == [type |-> "unset"]

\* the process before main() has taken a step, no function called
InitProcess ==
    /\ pc = "parse_args"
    /\ args = Namespace("None")
    /\ config = Unset
    /\ custom_prompt = Unset
    /\ input_data = Unset
    /\ options = Unset
    /\ session = "none"
    /\ opened = 0
    /\ attempt = 0
    /\ next_msg = NoMessage
    /\ inflight = <<>>
    /\ response_text = <<>>
    /\ log = <<>>
    /\ outcome = Pending
    /\ stdout = <<>>
    /\ exit_status = -1
    /\ escaped = "none"
    /\ caught = Pending
    /\ fn = "none"
    /\ argument = Unset
    /\ result = Pending

Init == InitProcess /\ tasks = <<>>

(***************************************************************************)
(* src/__main__.py: main()                                                 *)
(***************************************************************************)
\* print(json.dumps(output_data, ensure_ascii=False, indent=2))
PrintDoc(doc) == stdout' = Append(stdout, json_dumps(doc))

\* exception e reaches the except clauses of main(): a subclass of Exception
\* is printed as a deny document and main() returns; any other leaves main()
HandleException(e) ==
    /\ pc' = "exited"
    /\ IF e.raises \in BaseExceptionsOnly
       THEN /\ escaped' = e.raises
            /\ exit_status' = 1
            /\ UNCHANGED <<stdout, caught>>
       ELSE /\ PrintDoc(create_error_output(ErrorReason(e)))
            /\ exit_status' = 0
            /\ caught' = e
            /\ UNCHANGED escaped

\* args = parse_args()
ParseArgs ==
    /\ pc = "parse_args"
    /\ \E argv \in ArgvSet :
          LET r == parse_args(argv) IN
          IF r.raises = "SystemExit"
          THEN \* argparse printed the help (stdout) or the usage error
               \* (stderr) and called sys.exit
               /\ pc' = "exited"
               /\ escaped' = "SystemExit"
               /\ exit_status' = r.code
               /\ stdout' = IF r.code = 0 THEN <<<<"usage:", " ", "help">>>> ELSE stdout
               /\ UNCHANGED <<args, caught>>
          ELSE /\ pc' = "load_config"
               /\ args' = r.v
               /\ UNCHANGED exitVars
    /\ UNCHANGED <<config, custom_prompt, input_data>>
    /\ UNCHANGED judgeVars
    /\ UNCHANGED callVars

\* mutant: a configuration that fails to load is skipped and main() goes
\* on with the default prompt
LoadConfig_IgnoreErrors ==
    /\ pc = "load_config"
    /\ LET loaded == IF args.config # "None" THEN load_config(args.config)
                     ELSE load_builtin_config("validate_bq_query") IN
       /\ pc' = "read_input"
       /\ config' = IF loaded.raises # "none" THEN Unset ELSE loaded.v
       /\ custom_prompt' = IF loaded.raises # "none" THEN JNull
                           ELSE DictGet(loaded.v, "prompt", JNull)
       /\ UNCHANGED exitVars
    /\ UNCHANGED <<args, input_data>>
    /\ UNCHANGED judgeVars
    /\ UNCHANGED callVars

\* config = load_config(args.config) or load_builtin_config(...);
\* custom_prompt = config.get("prompt")
LoadConfig ==
    /\ pc = "load_config"
    /\ LET loaded == IF args.config # "None" THEN load_config(args.config)
                     ELSE load_builtin_config("validate_bq_query") IN
       IF loaded.raises # "none"
       THEN HandleException(loaded) /\ UNCHANGED <<config, custom_prompt>>
       ELSE /\ pc' = "read_input"
            /\ config' = loaded.v
            /\ custom_prompt' = DictGet(loaded.v, "prompt", JNull)
            /\ UNCHANGED exitVars
    /\ UNCHANGED <<args, input_data>>
    /\ UNCHANGED judgeVars
    /\ UNCHANGED callVars

\* json.JSONDecodeError is a ValueError
JSONDecodeError(r) == Raises("ValueError", Message(r.err, <<>>))

\* input_json = sys.stdin.read(); input_data = json.loads(input_json);
\* input_data = validate_pretooluse_input(input_data)
ReadInput ==
    /\ pc = "read_input"
    /\ \E input_json \in StdinTexts :
          LET parsed == json_loads(input_json)
              validated == validate_pretooluse_input(parsed.v) IN
          IF ~parsed.ok
          THEN HandleException(JSONDecodeError(parsed)) /\ UNCHANGED input_data
          ELSE IF validated.raises # "none"
          THEN HandleException(validated) /\ UNCHANGED input_data
          ELSE /\ pc' = "open_session"
               /\ input_data' = validated.v
               /\ UNCHANGED exitVars
    /\ UNCHANGED <<args, config, custom_prompt>>
    /\ UNCHANGED judgeVars
    /\ UNCHANGED callVars


(***************************************************************************)
(* src/judge.py: judge_pretooluse_async                                    *)
(***************************************************************************)
\* the user prompt: the tool name and json.dumps(tool_input, indent=2)
user_prompt(data) ==
    Message("user_prompt",
            Get(data, "tool_name").s \o json_dumps(Get(data, "tool_input")))

\* SYSTEM_PROMPT as it is, or the claude_code preset with the custom prompt
\* and the JSON instructions appended
system_prompt(prompt) ==
    IF prompt = JNull
    THEN [type |-> "text", append |-> <<"SYSTEM_PROMPT">>]
    ELSE [type |-> "preset", append |-> prompt.s \o <<"json_instructions">>]

\* options_dict: model and allowed_tools only when they are not None
options_dict(prompt, model, allowed_tools) ==
    [k \in {"system_prompt", "max_turns"}
           \cup (IF model # JNull THEN {"model"} ELSE {})
           \cup (IF allowed_tools # JNull THEN {"allowed_tools"} ELSE {}) |->
        CASE k = "system_prompt" -> system_prompt(prompt)
          [] k = "max_turns" -> JNumber(MAX_RETRY_ATTEMPTS)
          [] k = "model" -> model
          [] OTHER -> allowed_tools]

Sent(msg) == [op |-> "send", msg |-> msg, text |-> <<>>]

Received(text) == [op |-> "receive", msg |-> NoMessage, text |-> text]

\* judge_pretooluse(input_data, prompt=custom_prompt) up to the first await:
\* `async with ClaudeSDKClient(options=options) as client` connects, or the
\* client fails to connect and no session exists
OpenSession ==
    /\ pc = "open_session"
    /\ options' = options_dict(custom_prompt, JNull, JNull)
    /\ \/ /\ session' = "open"
          /\ opened' = opened + 1
          /\ next_msg' = user_prompt(input_data)
          /\ pc' = "query"
          /\ UNCHANGED outcome
       \/ /\ outcome' = Raises("CLIConnectionError", Message("connect", <<>>))
          /\ pc' = "finish"
          /\ UNCHANGED <<session, opened, next_msg>>
    /\ UNCHANGED <<attempt, inflight, response_text, log>>
    /\ UNCHANGED mainVars
    /\ UNCHANGED exitVars
    /\ UNCHANGED callVars

\* await client.query(next_msg): the LLM client takes the query; its turn
\* is then in flight
Query ==
    /\ pc = "query"
    /\ \E turn \in Turns : inflight' = turn
    /\ log' = Append(log, Sent(next_msg))
    /\ response_text' = <<>>
    /\ pc' = "receive"
    /\ UNCHANGED <<options, session, opened, attempt, next_msg, outcome>>
    /\ UNCHANGED mainVars
    /\ UNCHANGED exitVars
    /\ UNCHANGED callVars

RECURSIVE BlocksText(_)
\* the text of the TextBlocks of a content list, in order
BlocksText(content) ==
    IF content = <<>> THEN <<>>
    ELSE (IF Head(content).type = "TextBlock" THEN Head(content).text ELSE <<>>)
         \o BlocksText(Tail(content))

\* mutant: the loop stops at the first AssistantMessage instead of draining
\* the turn up to its ResultMessage
ReceiveMessage_FirstMessage ==
    /\ pc = "receive"
    /\ inflight # <<>>
    /\ LET message == Head(inflight)
           text == IF message.type = "AssistantMessage"
                   THEN response_text \o BlocksText(message.content)
                   ELSE response_text
       IN  /\ response_text' = text
           /\ inflight' = Tail(inflight)
           /\ IF message.type \in {"AssistantMessage", "ResultMessage"}
              THEN pc' = "check" /\ log' = Append(log, Received(text))
              ELSE pc' = "receive" /\ UNCHANGED log
    /\ UNCHANGED <<options, session, opened, attempt, next_msg, outcome>>
    /\ UNCHANGED mainVars
    /\ UNCHANGED exitVars
    /\ UNCHANGED callVars

\* mutant: the text blocks of every message are appended, whatever the
\* type of the message
ReceiveMessage_AnyMessage ==
    /\ pc = "receive"
    /\ inflight # <<>>
    /\ LET message == Head(inflight)
           text == response_text \o BlocksText(message.content)
       IN  /\ response_text' = text
           /\ inflight' = Tail(inflight)
           /\ IF message.type = "ResultMessage"
              THEN pc' = "check" /\ log' = Append(log, Received(text))
              ELSE pc' = "receive" /\ UNCHANGED log
    /\ UNCHANGED <<options, session, opened, attempt, next_msg, outcome>>
    /\ UNCHANGED mainVars
    /\ UNCHANGED exitVars
    /\ UNCHANGED callVars

\* one round of `async for message in client.receive_response()` in
\* _receive_text_response: the text blocks of an AssistantMessage are
\* appended; the ResultMessage ends the turn
ReceiveMessage ==
    /\ pc = "receive"
    /\ inflight # <<>>
    /\ LET message == Head(inflight)
           text == IF message.type = "AssistantMessage"
                   THEN response_text \o BlocksText(message.content)
                   ELSE response_text
       IN  /\ response_text' = text
           /\ inflight' = Tail(inflight)
           /\ IF message.type = "ResultMessage"
              THEN pc' = "check" /\ log' = Append(log, Received(text))
              ELSE pc' = "receive" /\ UNCHANGED log
    /\ UNCHANGED <<options, session, opened, attempt, next_msg, outcome>>
    /\ UNCHANGED mainVars
    /\ UNCHANGED exitVars
    /\ UNCHANGED callVars

\* mutant: MAX_RETRY_ATTEMPTS retries after the first try
RetryOrRaise_OneMore(corrective, exc) ==
    IF attempt < MAX_RETRY_ATTEMPTS
    THEN /\ next_msg' = corrective
         /\ attempt' = attempt + 1
         /\ pc' = "query"
         /\ UNCHANGED outcome
    ELSE /\ outcome' = exc
         /\ pc' = "close"
         /\ UNCHANGED <<next_msg, attempt>>

\* mutant: no retry, the first failure is raised
RetryOrRaise_Never(corrective, exc) ==
    /\ outcome' = exc
    /\ pc' = "close"
    /\ UNCHANGED <<next_msg, attempt>>

\* mutant: after the first retry the corrective message is not renewed
RetryOrRaise_StaleMessage(corrective, exc) ==
    IF attempt < MAX_RETRY_ATTEMPTS - 1
    THEN /\ next_msg' = IF attempt > 0 THEN next_msg ELSE corrective
         /\ attempt' = attempt + 1
         /\ pc' = "query"
         /\ UNCHANGED outcome
    ELSE /\ outcome' = exc
         /\ pc' = "close"
         /\ UNCHANGED <<next_msg, attempt>>

\* `if attempt < MAX_RETRY_ATTEMPTS - 1`: send the corrective query and
\* continue; otherwise raise
RetryOrRaise(corrective, exc) ==
    IF attempt < MAX_RETRY_ATTEMPTS - 1
    THEN /\ next_msg' = corrective
         /\ attempt' = attempt + 1
         /\ pc' = "query"
         /\ UNCHANGED outcome
    ELSE /\ outcome' = exc
         /\ pc' = "close"
         /\ UNCHANGED <<next_msg, attempt>>

\* mutant: the loop body without its `if not response_text` test
CheckReply_NoEmptyTest(text) ==
    LET parsed == json_loads(text) IN
    IF ~parsed.ok
    THEN [kind |-> "invalid_json", result |-> Pending,
          corrective |-> Message("not_valid_json", <<parsed.err>>),
          exc |-> Raises("InvalidJSONError", Message("failed_to_parse", <<parsed.err>>))]
    ELSE LET wrapped == wrap_output_if_needed(parsed.v) IN
    IF wrapped.raises # "none"
    THEN [kind |-> "raise", result |-> wrapped,
          corrective |-> NoMessage, exc |-> wrapped]
    ELSE LET validated == validate_pretooluse_output(wrapped.v) IN
    IF validated.raises # "none"
    THEN [kind |-> "schema", result |-> Pending,
          corrective |-> Message("schema_mismatch", StrOf(validated)),
          exc |-> Raises("SchemaValidationError",
                         Message("failed_to_get_valid_output", StrOf(validated)))]
    ELSE [kind |-> "return", result |-> Returns(wrapped.v),
          corrective |-> NoMessage, exc |-> Pending]

\* mutant: the reply is stripped before the `if not response_text` test
CheckReply_StripFirst(text) ==
    IF Strip(text) = <<>>
    THEN [kind |-> "no_response", result |-> Pending,
          corrective |-> Message("provide_valid_json", <<>>),
          exc |-> Raises("NoResponseError", Message("no_response", <<>>))]
    ELSE CheckReply_NoEmptyTest(text)

\* what the body of the retry loop does with a reply
\* (kind: "return", "raise", or the failure it retries on)
CheckReply(text) ==
    IF text = <<>>
    THEN [kind |-> "no_response", result |-> Pending,
          corrective |-> Message("provide_valid_json", <<>>),
          exc |-> Raises("NoResponseError", Message("no_response", <<>>))]
    ELSE LET parsed == json_loads(text) IN
    IF ~parsed.ok
    THEN [kind |-> "invalid_json", result |-> Pending,
          corrective |-> Message("not_valid_json", <<parsed.err>>),
          exc |-> Raises("InvalidJSONError", Message("failed_to_parse", <<parsed.err>>))]
    ELSE LET wrapped == wrap_output_if_needed(parsed.v) IN
    IF wrapped.raises # "none"
    THEN [kind |-> "raise", result |-> wrapped,
          corrective |-> NoMessage, exc |-> wrapped]
    ELSE LET validated == validate_pretooluse_output(wrapped.v) IN
    IF validated.raises # "none"
    THEN [kind |-> "schema", result |-> Pending,
          corrective |-> Message("schema_mismatch", StrOf(validated)),
          exc |-> Raises("SchemaValidationError",
                         Message("failed_to_get_valid_output", StrOf(validated)))]
    ELSE [kind |-> "return", result |-> Returns(wrapped.v),
          corrective |-> NoMessage, exc |-> Pending]

\* mutant: on the last attempt the corrective query is sent before the
\* exception is raised
Check_QueryBeforeRaise ==
    /\ pc = "check"
    /\ LET c == CheckReply(response_text) IN
       IF c.kind \in {"return", "raise"}
       THEN /\ outcome' = c.result
            /\ pc' = "close"
            /\ UNCHANGED <<next_msg, attempt, log>>
       ELSE /\ RetryOrRaise(c.corrective, c.exc)
            /\ log' = IF attempt < MAX_RETRY_ATTEMPTS - 1 THEN log
                      ELSE Append(log, Sent(c.corrective))
    /\ UNCHANGED <<options, session, opened, inflight, response_text>>
    /\ UNCHANGED mainVars
    /\ UNCHANGED exitVars
    /\ UNCHANGED callVars

\* the body of `for attempt in range(MAX_RETRY_ATTEMPTS)` after the turn
\* was received
Check ==
    /\ pc = "check"
    /\ LET c == CheckReply(response_text) IN
       IF c.kind \in {"return", "raise"}
       THEN /\ outcome' = c.result
            /\ pc' = "close"
            /\ UNCHANGED <<next_msg, attempt>>
       ELSE RetryOrRaise(c.corrective, c.exc)
    /\ UNCHANGED <<options, session, opened, inflight, response_text, log>>
    /\ UNCHANGED mainVars
    /\ UNCHANGED exitVars
    /\ UNCHANGED callVars

\* an await of the client (query, receive_response) fails, or the
\* surrounding scope is cancelled while the call is suspended there
Interrupt ==
    /\ pc \in {"query", "receive"}
    /\ \E exc \in {"CLIConnectionError", "CancelledError"} :
          outcome' = Raises(exc, Message("interrupted", <<>>))
    /\ pc' = "close"
    /\ UNCHANGED <<options, session, opened, attempt, next_msg, inflight,
                   response_text, log>>
    /\ UNCHANGED mainVars
    /\ UNCHANGED exitVars
    /\ UNCHANGED callVars

\* mutant: the client is disconnected after a return only, not when an
\* exception leaves the block
CloseSession_OnReturnOnly ==
    /\ pc = "close"
    /\ session' = IF outcome.raises = "none" THEN "closed" ELSE session
    /\ pc' = "finish"
    /\ UNCHANGED <<options, opened, attempt, next_msg, inflight, response_text,
                   log, outcome>>
    /\ UNCHANGED mainVars
    /\ UNCHANGED exitVars
    /\ UNCHANGED callVars

\* leaving `async with`: __aexit__ disconnects the client
CloseSession ==
    /\ pc = "close"
    /\ session' = "closed"
    /\ pc' = "finish"
    /\ UNCHANGED <<options, opened, attempt, next_msg, inflight, response_text,
                   log, outcome>>
    /\ UNCHANGED mainVars
    /\ UNCHANGED exitVars
    /\ UNCHANGED callVars

\* back in main(): print the decision, or handle the exception
Finish ==
    /\ pc = "finish"
    /\ IF outcome.raises = "none"
       THEN /\ PrintDoc(outcome.v)
            /\ exit_status' = 0
            /\ pc' = "exited"
            /\ UNCHANGED <<escaped, caught>>
       ELSE HandleException(outcome)
    /\ UNCHANGED mainVars
    /\ UNCHANGED judgeVars
    /\ UNCHANGED callVars

Next ==
    \/ ParseArgs
    \/ LoadConfig
    \/ ReadInput
    \/ OpenSession
    \/ Query
    \/ ReceiveMessage
    \/ Check
    \/ Interrupt
    \/ CloseSession
    \/ Finish

Spec == Init /\ [][Next]_vars


(***************************************************************************)
(* The functions called directly, as the unit tests call them: one call    *)
(* of one function on one argument.                                        *)
(***************************************************************************)
\* an object written over several lines
MultiLine ==
    <<"{", "\n", " ", " ">> \o Decision("allow") \o <<",", "\n", " ", " ">>
    \o Reason("safe") \o <<"\n", "}">>

\* what a text begins with, what it holds, and what it ends with
Leads ==
    { <<>>, <<" ">>, <<"\n", "\t">>, <<"Sure!", " ">>,
      <<"Sure!", " ", "Here", " ", "is", " ", "the", " ", "JSON:", "\n">>,
      <<"It", APOSTROPHE, "s", ":", " ">>, <<"C:", BACKSLASH, "tmp", " ">>,
      FENCE \o <<"json", "\n">> }

Bodies ==
    { <<>>, BareAllow, MultiLine, EnvWithSiblings \o <<" ">> \o EnvWithSiblings,
      FenceInReason, <<"{">>, <<"}">>, JsonArray,
      BareAllow \o <<"\n">> \o BareDeny }

Trails ==
    { <<>>, <<"\n">>, <<"\n", "Hope", " ", "this", " ", "helps!">>,
      <<"\n", "That", APOSTROPHE, "s", " ", "it", "\n", "!", " ">>,
      <<"\n">> \o FENCE, <<" ", "see", " ", "C:", BACKSLASH, "tmp">>,
      <<" ", "//", " ">> \o Lit("ok") }

\* the texts _validate_response_format is called on
CheckerTexts ==
    { lead \o body \o trail : lead \in Leads, body \in Bodies, trail \in Trails }

\* the objects over the keys in `keys`, each key with one of its values
RECURSIVE ObjectsOver(_, _)
ObjectsOver(keys, values) ==
    IF keys = {} THEN {JObject(EmptyDict)}
    ELSE LET key == CHOOSE k \in keys : TRUE
             rest == ObjectsOver(keys \ {key}, values)
         IN  rest \cup { JObject((<<key>> :> v) @@ o.o) : o \in rest, v \in values[key] }

\* the inner objects of an output document
InnerObjects ==
    ObjectsOver({"hookEventName", "permissionDecision", "permissionDecisionReason",
                 "updatedInput", "extra"},
                [hookEventName |-> {Str("PreToolUse"), Str("PostToolUse")},
                 permissionDecision |-> {Str("allow"), Str("deny"), Str("ask"),
                                         Str("maybe")},
                 permissionDecisionReason |-> {Str("safe")},
                 updatedInput |-> {Dict1("command", Str("ls"))},
                 extra |-> {JBool(TRUE)}])

NonObjects == {Str("allow"), JNumber(1), JNull, JArray(<<JNumber(1)>>), JBool(TRUE)}

\* the values _wrap_output_if_needed is called on
WrapArguments ==
    ObjectsOver({"hookSpecificOutput", "permissionDecision",
                 "permissionDecisionReason", "updatedInput", "continue"},
                [hookSpecificOutput |->
                    {JObject(EmptyDict), Str("x"),
                     JObject((<<"hookEventName">> :> Str("PreToolUse"))
                             @@ (<<"permissionDecision">> :> Str("ask"))
                             @@ (<<"permissionDecisionReason">> :> Str("why")))},
                 permissionDecision |-> {Str("allow"), Str("maybe"), JNumber(1), JNull},
                 permissionDecisionReason |->
                    {Str("safe"), JNull, JArray(<<>>),
                     JString(<<"say", " ", Q, "hi", Q, "\n", BACKSLASH>>)},
                 updatedInput |-> {Dict1("command", Str("ls"))},
                 continue |-> {JBool(TRUE)}])

\* the documents validate_pretooluse_output is called on
OutputDocuments ==
    ObjectsOver({"hookSpecificOutput", "continue", "future"},
                [hookSpecificOutput |-> InnerObjects \cup {Str("allow")},
                 continue |-> {JBool(TRUE)},
                 future |-> {Str("x")}])
    \cup NonObjects

\* the documents validate_pretooluse_input is called on
InputDocuments ==
    ObjectsOver({"session_id", "transcript_path", "cwd", "permission_mode",
                 "hook_event_name", "tool_name", "tool_input", "future_field"},
                [session_id |-> {Str("s1")},
                 transcript_path |-> {Str("/t")},
                 cwd |-> {Str("/w")},
                 permission_mode |-> {Str("default"), Str("yolo")},
                 hook_event_name |-> {Str("PreToolUse")},
                 tool_name |-> {Str("Write")},
                 tool_input |-> {Dict1("file_path", Str("/w/a"))},
                 future_field |-> {JNumber(1)}])
    \cup NonObjects

\* the documents validate_config_yaml is called on
ConfigDocuments ==
    ObjectsOver({"prompt", "model", "allowed_tools", "timeout"},
                [prompt |-> {Str("rules"), JNumber(1), JString(<<"line1", "\n", "line2">>)},
                 model |-> {Str("haiku"), Str("claude-opus-4-1"), Str("gpt"), JNumber(1)},
                 allowed_tools |-> {JArray(<<>>), JArray(<<Str("Bash"), Str("Read")>>),
                                    JArray(<<Str("Bash"), JNumber(1)>>), Str("Bash")},
                 timeout |-> {JNumber(1)}])
    \cup NonObjects

\* the reasons create_error_output is called on
Reasons ==
    { <<>>, <<"unsafe">>, <<"say", " ", Q, "hi", Q>>,
      <<"line1", "\n", "line2", "\t", "\r">>, <<"C:", BACKSLASH, "tmp">>,
      <<BACKSLASH, Q>>, <<"{", Q, "a", Q, ":", " ", "[", "1", ",", "2", "]", "}">>,
      <<"It", APOSTROPHE, "s", " ">> \o FENCE }

\* _validate_response_format(text)
CallValidateResponseFormat ==
    /\ fn = "none"
    /\ \E text \in CheckerTexts :
          /\ argument' = text
          /\ result' = validate_response_format(text)
    /\ fn' = "_validate_response_format"
    /\ UNCHANGED <<pc, mainVars, judgeVars, exitVars, tasks>>

\* replies with an updatedInput and with the top-level sibling fields of
\* the envelope, with and without the envelope
SiblingArguments ==
    ObjectsOver({"hookSpecificOutput", "permissionDecision", "updatedInput",
                 "continue", "stopReason", "suppressOutput", "systemMessage"},
                [hookSpecificOutput |->
                    {JObject((<<"hookEventName">> :> Str("PreToolUse"))
                             @@ (<<"permissionDecision">> :> Str("allow"))
                             @@ (<<"permissionDecisionReason">> :> Str("safe"))
                             @@ (<<"updatedInput">> :> Dict1("command", Str("ls"))))},
                 permissionDecision |-> {Str("allow")},
                 updatedInput |-> {Dict1("command", Str("ls"))},
                 continue |-> {JBool(FALSE)},
                 stopReason |-> {Str("stop")},
                 suppressOutput |-> {JBool(TRUE)},
                 systemMessage |-> {Str("note")}])

\* _wrap_output_if_needed(output_data)
CallWrapOutputIfNeeded ==
    /\ fn = "none"
    /\ \E output_data \in WrapArguments \cup SiblingArguments \cup NonObjects :
          /\ argument' = output_data
          /\ result' = wrap_output_if_needed(output_data)
    /\ fn' = "_wrap_output_if_needed"
    /\ UNCHANGED <<pc, mainVars, judgeVars, exitVars, tasks>>

\* validate_pretooluse_input(data)
CallValidatePretooluseInput ==
    /\ fn = "none"
    /\ \E data \in InputDocuments :
          /\ argument' = data
          /\ result' = validate_pretooluse_input(data)
    /\ fn' = "validate_pretooluse_input"
    /\ UNCHANGED <<pc, mainVars, judgeVars, exitVars, tasks>>

\* validate_pretooluse_output(data)
CallValidatePretooluseOutput ==
    /\ fn = "none"
    /\ \E data \in OutputDocuments :
          /\ argument' = data
          /\ result' = validate_pretooluse_output(data)
    /\ fn' = "validate_pretooluse_output"
    /\ UNCHANGED <<pc, mainVars, judgeVars, exitVars, tasks>>

\* validate_config_yaml(data)
CallValidateConfigYaml ==
    /\ fn = "none"
    /\ \E data \in ConfigDocuments :
          /\ argument' = data
          /\ result' = validate_config_yaml(data)
    /\ fn' = "validate_config_yaml"
    /\ UNCHANGED <<pc, mainVars, judgeVars, exitVars, tasks>>

\* create_error_output(reason)
CallCreateErrorOutput ==
    /\ fn = "none"
    /\ \E reason \in Reasons :
          /\ argument' = reason
          /\ result' = Returns(create_error_output(reason))
    /\ fn' = "create_error_output"
    /\ UNCHANGED <<pc, mainVars, judgeVars, exitVars, tasks>>

NextCall ==
    \/ CallValidateConfigYaml
    \/ CallCreateErrorOutput
    \/ CallValidateResponseFormat
    \/ CallWrapOutputIfNeeded
    \/ CallValidatePretooluseInput
    \/ CallValidatePretooluseOutput

SpecCall == Init /\ [][NextCall]_vars


(***************************************************************************)
(* Properties                                                              *)
(***************************************************************************)
SendIndexes == {i \in DOMAIN log : log[i].op = "send"}

ReceiveIndexes == {i \in DOMAIN log : log[i].op = "receive"}

NumSent == Cardinality(SendIndexes)

NumReceived == Cardinality(ReceiveIndexes)

\* the judgment call has ended: it returned or raised
JudgeEnded == outcome # Pending

\* the call was ended by the client failing or by cancellation, not by what
\* the retry loop made of a reply
Interrupted == outcome.raises \in {"CLIConnectionError", "CancelledError"}

ClassifiedErrors == {"InvalidJSONError", "NoResponseError", "SchemaValidationError"}

\* the text of the k-th turn received
Reply(k) == log[2 * k].text

LastReply == log[CHOOSE i \in ReceiveIndexes : \A j \in ReceiveIndexes : j <= i].text

\* how the reply fails, seen from the text alone
IsEmptyReply(text) == text = <<>>

IsUnparseable(text) == text # <<>> /\ ~json_loads(text).ok

IsObjectReply(text) == json_loads(text).ok /\ IsDict(json_loads(text).v)

\* C1: a judgment call receives at most MAX_RETRY_ATTEMPTS = 3 turns and
\* sends at most 3 queries, whatever mix of failures the replies are.
C1_AtMostThreeTries ==
    /\ NumReceived <= MAX_RETRY_ATTEMPTS
    /\ NumSent <= MAX_RETRY_ATTEMPTS
    /\ attempt < MAX_RETRY_ATTEMPTS

\* three turns received: an empty one, an unparseable one and one that
\* fails the schema; the call has raised
C1_Witness ==
    /\ NumReceived = 3
    /\ IsEmptyReply(Reply(1))
    /\ IsUnparseable(Reply(2))
    /\ Reply(3) = EnvNoReason
    /\ outcome.raises = "SchemaValidationError"

\* C2: a judgment call that the replies bring to its end returns a document
\* valid against the output schema or raises InvalidJSONError,
\* NoResponseError or SchemaValidationError.
C2_ValidOrClassified ==
    (JudgeEnded /\ ~Interrupted) =>
        \/ /\ outcome.raises = "none"
           /\ validate_with_schema(outcome.v, PRETOOLUSE_OUTPUT_SCHEMA).raises = "none"
        \/ outcome.raises \in ClassifiedErrors

\* the permissionDecision of a printed text, "" when it has none
PrintedDecision(text) ==
    LET doc == json_loads(text) IN
    IF doc.ok /\ IsDict(doc.v) /\ Has(doc.v, "hookSpecificOutput")
       /\ IsDict(Get(doc.v, "hookSpecificOutput"))
       /\ Has(Get(doc.v, "hookSpecificOutput"), "permissionDecision")
       /\ IsStr(Get(Get(doc.v, "hookSpecificOutput"), "permissionDecision"))
       /\ Len(Get(Get(doc.v, "hookSpecificOutput"), "permissionDecision").s) = 1
    THEN Get(Get(doc.v, "hookSpecificOutput"), "permissionDecision").s[1]
    ELSE ""

\* the text is a JSON object whose permissionDecision, bare or inside
\* hookSpecificOutput, is exactly "allow"
ExplicitAllow(text) ==
    LET doc == json_loads(text) IN
    /\ doc.ok
    /\ IsDict(doc.v)
    /\ IF Has(doc.v, "hookSpecificOutput")
       THEN /\ IsDict(Get(doc.v, "hookSpecificOutput"))
            /\ Has(Get(doc.v, "hookSpecificOutput"), "permissionDecision")
            /\ Get(Get(doc.v, "hookSpecificOutput"), "permissionDecision") = Str("allow")
       ELSE /\ Has(doc.v, "permissionDecision")
            /\ Get(doc.v, "permissionDecision") = Str("allow")

\* C3: a printed allow is the explicit allow of the last reply received;
\* when the last reply is no explicit allow, or there is none, what main()
\* prints is deny or ask, and deny whenever the judgment raised.
C3_AllowOnlyIfExplicit ==
    \A i \in DOMAIN stdout :
        /\ PrintedDecision(stdout[i]) = "allow" =>
              (NumReceived > 0 /\ ExplicitAllow(LastReply))
        /\ (escaped = "none" /\ ~(NumReceived > 0 /\ ExplicitAllow(LastReply))) =>
              PrintedDecision(stdout[i]) \in {"deny", "ask"}
        /\ (escaped = "none" /\ outcome.raises # "none") =>
              PrintedDecision(stdout[i]) = "deny"

\* allow was printed, after a first reply that was refused
C3_Witness ==
    /\ pc = "exited"
    /\ stdout # <<>>
    /\ PrintedDecision(stdout[1]) = "allow"
    /\ NumReceived = 2

\* a well-formed Decision: a JSON text valid against the output schema
WellFormedDecision(text) ==
    LET doc == json_loads(text) IN
    doc.ok /\ validate_with_schema(doc.v, PRETOOLUSE_OUTPUT_SCHEMA).raises = "none"

\* C4: every run of main() ends with exactly one well-formed Decision on
\* stdout, no exception leaving main(), and exit status 0.
C4_TotalBoundary ==
    pc = "exited" =>
        /\ escaped = "none"
        /\ exit_status = 0
        /\ Len(stdout) = 1
        /\ WellFormedDecision(stdout[1])

\* C5: at most one session is opened per judgment call, it is open only
\* while the call runs inside the `async with` block, and it is closed when
\* the call has returned or raised, whatever ended it.
C5_SessionScoped ==
    /\ opened <= 1
    /\ (session = "none") = (opened = 0)
    /\ session = "open" => pc \in {"query", "receive", "check", "close"}
    /\ pc \in {"query", "receive", "check", "close"} => opened = 1
    /\ pc \in {"finish", "exited"} => session # "open"
    /\ (pc \in {"finish", "exited"} /\ opened = 1) => session = "closed"

\* the call was left by an exception no except clause of the loop catches,
\* raised while checking a reply, and the session is closed
C5_Witness ==
    /\ pc = "finish"
    /\ outcome.raises \in {"TypeError", "AttributeError"}
    /\ opened = 1
    /\ session = "closed"

\* C6: in the log of a session sends and receives alternate, starting with
\* a send; a query is sent only when no message of an earlier turn is still
\* to be received, and at most one query is outstanding.
C6_Alternation ==
    /\ \A i \in DOMAIN log : log[i].op = IF i % 2 = 1 THEN "send" ELSE "receive"
    /\ pc = "query" => (inflight = <<>> /\ NumSent = NumReceived)
    /\ NumSent - NumReceived \in {0, 1}
    /\ inflight # <<>> => NumSent = NumReceived + 1

\* the corrective query was sent after the first turn was received in full,
\* and the three messages of the next turn are in flight
C6_Witness ==
    /\ pc = "receive"
    /\ Len(log) = 3
    /\ Reply(1) = <<>>
    /\ log[3].msg.template = "provide_valid_json"
    /\ Len(inflight) = 3

\* C7: a reply that is returned as the Decision passes the Response Format
\* Checker.
C7_ReturnedPassesChecker ==
    (JudgeEnded /\ outcome.raises = "none") =>
        validate_response_format(LastReply).raises = "none"

\* C8: after a non-empty reply that fails the Response Format Checker, the
\* next query sent is the checker's own message for that defect.
C8_CheckerMessageSent ==
    \A i \in ReceiveIndexes :
        (/\ log[i].text # <<>>
         /\ validate_response_format(log[i].text).raises # "none"
         /\ (i + 1) \in DOMAIN log) =>
            log[i + 1].msg = validate_response_format(log[i].text).msg

\* JSON wrapped in a markdown code fence
IsFencedJson(text) ==
    /\ Len(text) > 6
    /\ SubSeq(text, 1, 3) = FENCE
    /\ SubSeq(text, Len(text) - 2, Len(text)) = FENCE
    /\ \E i \in 4 .. 5, j \in (Len(text) - 4) .. (Len(text) - 3) :
          i <= j /\ json_loads(SubSeq(text, i, j)).ok

\* raw JSON of a decision: a bare object with a decision among allow, deny,
\* ask and a reason
IsRawDecision(text) ==
    /\ IsObjectReply(text)
    /\ DOMAIN json_loads(text).v.o = {<<"permissionDecision">>, <<"permissionDecisionReason">>}
    /\ json_loads(text).v.o[<<"permissionDecision">>] \in {Str("allow"), Str("deny"), Str("ask")}
    /\ IsStr(json_loads(text).v.o[<<"permissionDecisionReason">>])

\* C9: when the first reply is JSON in a code fence, the call does not end
\* on it (unless the client fails or the call is cancelled); when the second
\* reply is then a raw decision, the call returns that decision in its
\* envelope after exactly 2 queries and 2 turns.
C9_RecoversOnSecondAttempt ==
    (NumReceived >= 1 /\ IsFencedJson(Reply(1))) =>
        /\ (JudgeEnded /\ NumReceived = 1) => Interrupted
        /\ (JudgeEnded /\ NumReceived >= 2 /\ IsRawDecision(Reply(2))) =>
              /\ outcome.raises = "none"
              /\ outcome.v = Envelope(
                    json_loads(Reply(2)).v.o[<<"permissionDecision">>],
                    json_loads(Reply(2)).v.o[<<"permissionDecisionReason">>])
              /\ NumSent = 2
              /\ NumReceived = 2

C9_Witness ==
    /\ pc = "finish"
    /\ NumReceived = 2
    /\ Reply(1) = Fenced
    /\ Reply(2) = BareDeny
    /\ outcome.raises = "none"

\* valid JSON: an object that lacks permissionDecisionReason, bare or inside
\* a hookSpecificOutput envelope
LacksReasonEnvelope(text) ==
    /\ IsObjectReply(text)
    /\ Has(json_loads(text).v, "hookSpecificOutput")
    /\ IsDict(Get(json_loads(text).v, "hookSpecificOutput"))
    /\ ~Has(Get(json_loads(text).v, "hookSpecificOutput"), "permissionDecisionReason")

LacksReasonBare(text) ==
    /\ IsObjectReply(text)
    /\ ~Has(json_loads(text).v, "hookSpecificOutput")
    /\ ~Has(json_loads(text).v, "permissionDecisionReason")

\* C10, as claimed: when every reply is valid JSON lacking
\* permissionDecisionReason, bare or in an envelope, the call raises
\* SchemaValidationError after 3 attempts and returns no Decision.
C10_Original ==
    (/\ JudgeEnded /\ ~Interrupted
     /\ \A i \in ReceiveIndexes :
           LacksReasonBare(log[i].text) \/ LacksReasonEnvelope(log[i].text)) =>
        (outcome.raises = "SchemaValidationError" /\ NumReceived = 3)

\* C10, amended: when every reply is valid JSON with a hookSpecificOutput
\* envelope lacking permissionDecisionReason, the call raises
\* SchemaValidationError after 3 attempts and returns no Decision.
C10_EnvelopeWithoutReason ==
    (/\ JudgeEnded /\ ~Interrupted
     /\ \A i \in ReceiveIndexes : LacksReasonEnvelope(log[i].text)) =>
        (outcome.raises = "SchemaValidationError" /\ NumReceived = 3)

C10_Witness ==
    /\ pc = "finish"
    /\ NumReceived = 3
    /\ \A k \in 1 .. 3 : Reply(k) = EnvNoReason
    /\ outcome.raises = "SchemaValidationError"

\* the permissionDecisionReason of a printed text, <<>> when it has none
PrintedReason(text) ==
    LET doc == json_loads(text) IN
    IF doc.ok /\ IsDict(doc.v) /\ Has(doc.v, "hookSpecificOutput")
       /\ IsDict(Get(doc.v, "hookSpecificOutput"))
       /\ Has(Get(doc.v, "hookSpecificOutput"), "permissionDecisionReason")
       /\ IsStr(Get(Get(doc.v, "hookSpecificOutput"), "permissionDecisionReason"))
    THEN Get(Get(doc.v, "hookSpecificOutput"), "permissionDecisionReason").s
    ELSE <<>>

\* every turn received so far carried no text
OnlyEmptyReplies == \A k \in 1 .. NumReceived : IsEmptyReply(Reply(k))

\* C11: when every turn carries empty text, the query after the first and
\* after the second turn is the "provide valid JSON" instruction, the call
\* raises NoResponseError after the third turn, and main() prints one deny
\* document whose reason is the no-response reason.
C11_ScenarioB ==
    OnlyEmptyReplies =>
        /\ \A k \in 1 .. NumReceived :
              (2 * k + 1) \in DOMAIN log =>
                  /\ k < 3
                  /\ log[2 * k + 1].msg = Message("provide_valid_json", <<>>)
        /\ (JudgeEnded /\ ~Interrupted) =>
              /\ NumReceived = 3
              /\ NumSent = 3
              /\ outcome.raises = "NoResponseError"
        /\ (NumReceived = 3 /\ pc # "check") => outcome.raises = "NoResponseError"
        /\ (NumReceived = 3 /\ pc = "exited") =>
              /\ escaped = "none"
              /\ Len(stdout) = 1
              /\ PrintedDecision(stdout[1]) = "deny"
              /\ PrintedReason(stdout[1]) = <<REASON_NO_RESPONSE>>
              /\ REASON_NO_RESPONSE \notin
                    {REASON_INVALID_JSON, REASON_SCHEMA, REASON_UNEXPECTED,
                     REASON_INPUT, REASON_CONFIG}

\* three empty turns were received and main() has printed
C11_Witness ==
    /\ pc = "exited"
    /\ NumReceived = 3
    /\ OnlyEmptyReplies
    /\ log[3].msg.template = "provide_valid_json"
    /\ log[5].msg.template = "provide_valid_json"
    /\ stdout # <<>>

\* the text is the bare object
\* {"permissionDecision": "allow", "permissionDecisionReason": "safe"}
IsBareAllowSafe(text) ==
    /\ json_loads(text).ok
    /\ json_loads(text).v =
          JObject((<<"permissionDecision">> :> Str("allow"))
                  @@ (<<"permissionDecisionReason">> :> Str("safe")))

\* {"hookSpecificOutput": {"hookEventName": "PreToolUse",
\*  "permissionDecision": "allow", "permissionDecisionReason": "safe"}}
AllowSafeEnvelope ==
    JObject(<<"hookSpecificOutput">> :>
        JObject((<<"hookEventName">> :> Str("PreToolUse"))
                @@ (<<"permissionDecision">> :> Str("allow"))
                @@ (<<"permissionDecisionReason">> :> Str("safe"))))

\* C12: when the first reply is the bare object with decision allow and
\* reason safe, the call returns on the first attempt: one query sent, no
\* corrective query, and the value returned is the envelope with
\* hookEventName PreToolUse, allow and safe.
C12_ScenarioA ==
    (NumReceived >= 1 /\ IsBareAllowSafe(Reply(1))) =>
        /\ validate_pretooluse_input(input_data).raises = "none"
        /\ NumSent = 1
        /\ NumReceived = 1
        /\ pc # "query"
        /\ pc # "check" => outcome = Returns(AllowSafeEnvelope)
        /\ (pc = "exited") => stdout = <<json_dumps(AllowSafeEnvelope)>>

\* the bare allow was the first reply and the call has returned
C12_Witness ==
    /\ pc = "finish"
    /\ NumSent = 1
    /\ NumReceived = 1
    /\ Reply(1) = BareAllow
    /\ outcome.raises = "none"

\* the reason main() gives for each of the six classes of failure
ReasonOfClass(exc) ==
    CASE exc = "InvalidJSONError" -> REASON_INVALID_JSON
      [] exc = "NoResponseError" -> REASON_NO_RESPONSE
      [] exc = "SchemaValidationError" -> REASON_SCHEMA
      [] exc = "ConfigError" -> REASON_CONFIG
      [] exc \in {"ValueError", "UnicodeDecodeError"} -> REASON_INPUT
      [] OTHER -> REASON_UNEXPECTED

\* C13: whatever exception an except clause of main() handles, main()
\* prints one deny document whose reason is not empty and begins with the
\* reason of the exception's class; the reasons of the six classes are
\* pairwise different.
C13_DistinctReasons ==
    /\ Cardinality({ReasonOfClass(exc) :
                        exc \in {"InvalidJSONError", "NoResponseError",
                                 "SchemaValidationError", "ConfigError",
                                 "ValueError", "Exception"}}) = 6
    /\ caught # Pending =>
          /\ pc = "exited"
          /\ Len(stdout) = 1
          /\ PrintedDecision(stdout[1]) = "deny"
          /\ PrintedReason(stdout[1]) # <<>>
          /\ Head(PrintedReason(stdout[1])) = ReasonOfClass(caught.raises)
          /\ Head(PrintedReason(stdout[1])) # ""

\* stdin was no JSON: the ValueError of json.loads was handled
C13_Witness ==
    /\ pc = "exited"
    /\ caught.raises = "ValueError"
    /\ input_data = Unset
    /\ custom_prompt # Unset
    /\ Head(PrintedReason(stdout[1])) = REASON_INPUT

\* C14: _wrap_output_if_needed returns an object that has the key
\* hookSpecificOutput as it is; for any other object it returns an object
\* with the one key hookSpecificOutput, whose value has exactly
\* hookEventName = "PreToolUse", permissionDecision and
\* permissionDecisionReason: the object's own values when it has the keys,
\* "deny" and the fixed reason when it has not.
C14_Normalizer ==
    (fn = "_wrap_output_if_needed" /\ IsDict(argument)) =>
        /\ result.raises = "none"
        /\ Has(argument, "hookSpecificOutput") => result.v = argument
        /\ ~Has(argument, "hookSpecificOutput") =>
              /\ IsDict(result.v)
              /\ DOMAIN result.v.o = {<<"hookSpecificOutput">>}
              /\ LET inner == result.v.o[<<"hookSpecificOutput">>] IN
                 /\ IsDict(inner)
                 /\ DOMAIN inner.o = {<<"hookEventName">>, <<"permissionDecision">>,
                                      <<"permissionDecisionReason">>}
                 /\ inner.o[<<"hookEventName">>] = JString(<<"PreToolUse">>)
                 /\ inner.o[<<"permissionDecision">>] =
                       IF <<"permissionDecision">> \in DOMAIN argument.o
                       THEN argument.o[<<"permissionDecision">>]
                       ELSE JString(<<"deny">>)
                 /\ inner.o[<<"permissionDecisionReason">>] =
                       IF <<"permissionDecisionReason">> \in DOMAIN argument.o
                       THEN argument.o[<<"permissionDecisionReason">>]
                       ELSE JString(<<"Invalid or missing permission decision from judgment system">>)

\* the normalizer was called on a bare object whose permissionDecision is
\* null and that has no permissionDecisionReason
C14_Witness ==
    /\ fn = "_wrap_output_if_needed"
    /\ IsDict(argument)
    /\ DOMAIN argument.o = {<<"permissionDecision">>, <<"updatedInput">>}
    /\ argument.o[<<"permissionDecision">>] = JNull
    /\ result.raises = "none"
    /\ result.v # argument

\* three backticks in a row somewhere in the text
ContainsTripleBacktick(text) ==
    \E i \in 1 .. Len(text) - 2 :
        \A j \in i .. i + 2 : text[j] = BACKTICK

\* the first and the last atom of the text that is no whitespace, 0 if none
FirstNonWs(text) ==
    IF \E i \in 1 .. Len(text) : text[i] \notin WHITESPACE
    THEN CHOOSE i \in 1 .. Len(text) :
            text[i] \notin WHITESPACE /\ \A j \in 1 .. i - 1 : text[j] \in WHITESPACE
    ELSE 0

LastNonWs(text) ==
    IF \E i \in 1 .. Len(text) : text[i] \notin WHITESPACE
    THEN CHOOSE i \in 1 .. Len(text) :
            text[i] \notin WHITESPACE
            /\ \A j \in i + 1 .. Len(text) : text[j] \in WHITESPACE
    ELSE 0

\* the text has non-whitespace before its first "{", or has no "{"
BadPrefix(text) == FirstNonWs(text) # 0 /\ text[FirstNonWs(text)] # "{"

\* the text has a "}" and non-whitespace after the last one
BadSuffix(text) ==
    /\ \E i \in 1 .. Len(text) : text[i] = "}"
    /\ LastNonWs(text) # 0
    /\ text[LastNonWs(text)] # "}"

\* C15: on a text that contains a triple backtick
\* _validate_response_format raises CodeFenceInResponseError, whatever its
\* prefix and suffix are; it raises InvalidJSONPrefixError or
\* InvalidJSONSuffixError only on a text without a triple backtick.
C15_CodeFenceFirst ==
    fn = "_validate_response_format" =>
        /\ ContainsTripleBacktick(argument) =>
              /\ result.raises = "CodeFenceInResponseError"
              /\ result.msg = CodeFence_create_message
        /\ result.raises \in {"InvalidJSONPrefixError", "InvalidJSONSuffixError"} =>
              ~ContainsTripleBacktick(argument)

\* the checker was called on a text with a code fence at its end, text
\* before its first "{" and text after its last "}"
C15_Witness ==
    /\ fn = "_validate_response_format"
    /\ ContainsTripleBacktick(argument)
    /\ SubSeq(argument, 1, 3) # FENCE
    /\ BadPrefix(argument)
    /\ BadSuffix(argument)
    /\ result.raises = "CodeFenceInResponseError"

\* the text without the whitespace around it
Trimmed(text) ==
    IF FirstNonWs(text) = 0 THEN <<>>
    ELSE SubSeq(text, FirstNonWs(text), LastNonWs(text))

\* the first 50 characters of the trimmed text
First50(text) ==
    SubSeq(Trimmed(text), 1, IF Len(Trimmed(text)) > 50 THEN 50 ELSE Len(Trimmed(text)))

\* what follows the last "}" of the text, without the whitespace around it
TrailingText(text) ==
    LET last == CHOOSE i \in 1 .. Len(text) :
                    text[i] = "}" /\ \A j \in i + 1 .. Len(text) : text[j] # "}"
    IN  Trimmed(SubSeq(text, last + 1, Len(text)))

\* needle is a contiguous part of hay
Contains(hay, needle) ==
    \E i \in 0 .. Len(hay) - Len(needle) :
        SubSeq(hay, i + 1, i + Len(needle)) = needle

\* how repr() writes a character it does not copy
EscapeSequence(c) ==
    CASE c = "\n" -> "\\n"
      [] c = "\t" -> "\\t"
      [] c = "\r" -> "\\r"
      [] c = BACKSLASH -> "\\\\"
      [] c = APOSTROPHE -> "\\'"
      [] c = Q -> "\\\""
      [] OTHER -> c

\* r is s between two equal quotes, with backslash, newline, tab, carriage
\* return and that quote written as escape sequences, all else copied
IsReprOf(r, s) ==
    /\ Len(r) = Len(s) + 2
    /\ r[1] \in {APOSTROPHE, Q}
    /\ r[Len(r)] = r[1]
    /\ \A i \in 1 .. Len(s) :
          r[i + 1] = IF s[i] \in {BACKSLASH, "\n", "\t", "\r", r[1]}
                     THEN EscapeSequence(s[i]) ELSE s[i]

\* no character of s is one repr() escapes
CopiedByRepr(s) ==
    /\ \A i \in 1 .. Len(s) : s[i] \notin {BACKSLASH, "\n", "\t", "\r"}
    /\ ~((\E i \in 1 .. Len(s) : s[i] = APOSTROPHE) /\ (\E i \in 1 .. Len(s) : s[i] = Q))

\* the case of the prefix rule: no triple backtick, and the trimmed text is
\* not empty and does not start with "{"
PrefixCase ==
    /\ fn = "_validate_response_format"
    /\ ~ContainsTripleBacktick(argument)
    /\ BadPrefix(argument)

\* C16, as claimed: in the case of the prefix rule the checker raises
\* InvalidJSONPrefixError and the message contains the first 50 characters
\* of the trimmed text.
C16_Original ==
    PrefixCase =>
        /\ result.raises = "InvalidJSONPrefixError"
        /\ Contains(result.msg.detail, First50(argument))

\* C16, amended: in the case of the prefix rule the checker raises
\* InvalidJSONPrefixError and the message contains repr() of the first 50
\* characters of the trimmed text: the characters in quotes with backslash,
\* newline, tab, carriage return and the quote escaped; it contains the
\* characters themselves when repr() escapes none of them.
C16_PrefixRule ==
    PrefixCase =>
        /\ result.raises = "InvalidJSONPrefixError"
        /\ result.msg.template = "invalid_prefix"
        /\ IsReprOf(result.msg.detail, First50(argument))
        /\ CopiedByRepr(First50(argument)) =>
              Contains(result.msg.detail, First50(argument))

\* the checker was called on a text of more than 50 characters that starts
\* with prose and has a newline among its first 50
C16_Witness ==
    /\ PrefixCase
    /\ Len(Trimmed(argument)) > 50
    /\ \E i \in 1 .. 50 : Trimmed(argument)[i] = "\n"
    /\ result.raises = "InvalidJSONPrefixError"

\* the case of the suffix rule: no triple backtick, the trimmed text starts
\* with "{" and something other than whitespace follows its last "}"
SuffixCase ==
    /\ fn = "_validate_response_format"
    /\ ~ContainsTripleBacktick(argument)
    /\ FirstNonWs(argument) # 0
    /\ argument[FirstNonWs(argument)] = "{"
    /\ BadSuffix(argument)

\* C17, as claimed: in the case of the suffix rule the checker raises
\* InvalidJSONSuffixError and the message contains the trailing text,
\* trimmed.
C17_Original ==
    SuffixCase =>
        /\ result.raises = "InvalidJSONSuffixError"
        /\ Contains(result.msg.detail, TrailingText(argument))

\* C17, amended: in the case of the suffix rule the checker raises
\* InvalidJSONSuffixError and the message contains repr() of the trimmed
\* trailing text; it contains the trailing text itself when repr() escapes
\* none of its characters.
C17_SuffixRule ==
    SuffixCase =>
        /\ result.raises = "InvalidJSONSuffixError"
        /\ result.msg.template = "invalid_suffix"
        /\ IsReprOf(result.msg.detail, TrailingText(argument))
        /\ CopiedByRepr(TrailingText(argument)) =>
              Contains(result.msg.detail, TrailingText(argument))

\* the checker was called on two objects followed by prose
C17_Witness ==
    /\ SuffixCase
    /\ Cardinality({i \in 1 .. Len(argument) : argument[i] = "}"}) = 2
    /\ TrailingText(argument) = <<"Hope", " ", "this", " ", "helps!">>
    /\ result.raises = "InvalidJSONSuffixError"

\* the text is empty or whitespace only
IsBlank(text) == \A i \in 1 .. Len(text) : text[i] \in WHITESPACE

\* the case of a passing text: blank, or one JSON object with whitespace
\* around it
PassCase ==
    /\ fn = "_validate_response_format"
    /\ IsBlank(argument) \/ IsObjectReply(argument)

\* C18, as claimed: the checker raises nothing on the empty text, on a
\* whitespace-only text and on a text that is one JSON object.
C18_Original == PassCase => result = Returns(JNull)

\* C18, amended: the checker raises nothing on the empty text, on a
\* whitespace-only text and on a text that is one JSON object and has no
\* triple backtick in it; on one JSON object with a triple backtick in one
\* of its strings it raises CodeFenceInResponseError.
C18_Passes ==
    PassCase =>
        IF ContainsTripleBacktick(argument)
        THEN result.raises = "CodeFenceInResponseError"
        ELSE result = Returns(JNull)

\* the checker passed an object written over several lines, with whitespace
\* before and after it
C18_Witness ==
    /\ PassCase
    /\ Trimmed(argument) = MultiLine
    /\ Len(argument) > Len(MultiLine) + 1
    /\ result = Returns(JNull)

\* the seven required fields of the input document
RequiredInputFields ==
    {"session_id", "transcript_path", "cwd", "permission_mode",
     "hook_event_name", "tool_name", "tool_input"}

\* the fields of the seven that the document lacks
MissingInputFields(doc) == {f \in RequiredInputFields : <<f>> \notin DOMAIN doc.o}

\* every required field is there with a value the schema admits
ValidInputFields(doc) ==
    /\ MissingInputFields(doc) = {}
    /\ \A f \in {"session_id", "transcript_path", "cwd", "tool_name"} :
          doc.o[<<f>>].type = "string"
    /\ doc.o[<<"permission_mode">>] \in
          {JString(<<"default">>), JString(<<"plan">>), JString(<<"acceptEdits">>),
           JString(<<"bypassPermissions">>)}
    /\ doc.o[<<"hook_event_name">>] = JString(<<"PreToolUse">>)
    /\ doc.o[<<"tool_input">>].type = "object"

\* C19: validate_pretooluse_input raises ValueError on an object that lacks
\* any of the seven required fields, with a message that names one of the
\* fields it lacks; it raises ValueError on a value that is no object; it
\* returns the document when the seven fields are valid, whatever other
\* top-level fields it has.
C19_InputValidation ==
    fn = "validate_pretooluse_input" =>
        /\ (argument.type = "object" /\ MissingInputFields(argument) # {}) =>
              /\ result.raises = "ValueError"
              /\ result.msg.template = "required"
              /\ \E f \in MissingInputFields(argument) : result.msg.detail = <<f>>
        /\ argument.type # "object" => result.raises = "ValueError"
        /\ (argument.type = "object" /\ ValidInputFields(argument)) =>
              result = Returns(argument)

\* the validator was called on an object without cwd and tool_name, with a
\* permission_mode the schema does not admit and an unknown field
C19_Witness ==
    /\ fn = "validate_pretooluse_input"
    /\ argument.type = "object"
    /\ MissingInputFields(argument) = {"cwd", "tool_name"}
    /\ argument.o[<<"permission_mode">>] = JString(<<"yolo">>)
    /\ <<"future_field">> \in DOMAIN argument.o
    /\ result.raises = "ValueError"

\* the value of hookSpecificOutput is an object
HasEnvelope(doc) ==
    /\ doc.type = "object"
    /\ <<"hookSpecificOutput">> \in DOMAIN doc.o
    /\ doc.o[<<"hookSpecificOutput">>].type = "object"

\* what makes the output document invalid, by the claim
InvalidOutput(doc) ==
    \/ doc.type # "object"
    \/ <<"hookSpecificOutput">> \notin DOMAIN doc.o
    \/ /\ HasEnvelope(doc)
       /\ LET inner == doc.o[<<"hookSpecificOutput">>].o IN
          \/ \E key \in {"hookEventName", "permissionDecision",
                          "permissionDecisionReason"} : <<key>> \notin DOMAIN inner
          \/ /\ <<"permissionDecision">> \in DOMAIN inner
             /\ inner[<<"permissionDecision">>] \notin
                   {JString(<<"allow">>), JString(<<"deny">>), JString(<<"ask">>)}
          \/ /\ <<"hookEventName">> \in DOMAIN inner
             /\ inner[<<"hookEventName">>] # JString(<<"PreToolUse">>)
          \/ \E k \in DOMAIN inner :
                k \notin {<<"hookEventName">>, <<"permissionDecision">>,
                          <<"permissionDecisionReason">>, <<"updatedInput">>}

\* a valid envelope, and top-level properties the schema types or does not
\* name
ValidOutput(doc) ==
    /\ HasEnvelope(doc)
    /\ ~InvalidOutput(doc)
    /\ LET inner == doc.o[<<"hookSpecificOutput">>].o IN
          /\ inner[<<"permissionDecisionReason">>].type = "string"
          /\ <<"updatedInput">> \in DOMAIN inner => inner[<<"updatedInput">>].type = "object"
    /\ <<"continue">> \in DOMAIN doc.o => doc.o[<<"continue">>].type = "boolean"

\* C20: validate_pretooluse_output raises ValueError on a document without
\* hookSpecificOutput, without one of hookEventName, permissionDecision,
\* permissionDecisionReason in it, with a permissionDecision that is not
\* allow, deny or ask, with a hookEventName that is not PreToolUse, or with
\* a property in hookSpecificOutput other than those three and
\* updatedInput; it returns a document with a valid hookSpecificOutput that
\* has properties at its top level the schema does not name.
C20_OutputValidation ==
    fn = "validate_pretooluse_output" =>
        /\ InvalidOutput(argument) => result.raises = "ValueError"
        /\ ValidOutput(argument) => result = Returns(argument)

\* the validator was called on a document whose hookSpecificOutput is valid
\* but for a property the schema does not name, with an unknown property at
\* the top level too
C20_Witness ==
    /\ fn = "validate_pretooluse_output"
    /\ HasEnvelope(argument)
    /\ DOMAIN argument.o = {<<"hookSpecificOutput">>, <<"future">>}
    /\ DOMAIN argument.o[<<"hookSpecificOutput">>].o =
          {<<"hookEventName">>, <<"permissionDecision">>,
           <<"permissionDecisionReason">>, <<"extra">>}
    /\ argument.o[<<"hookSpecificOutput">>].o[<<"permissionDecision">>] = JString(<<"ask">>)
    /\ argument.o[<<"hookSpecificOutput">>].o[<<"hookEventName">>] = JString(<<"PreToolUse">>)
    /\ result.raises = "ValueError"

\* the document has a prompt that is a string, a model of the allow-list if
\* it has one, a list of strings as allowed_tools if it has them, and no
\* other key
ValidConfig(doc) ==
    /\ doc.type = "object"
    /\ DOMAIN doc.o \subseteq {<<"prompt">>, <<"model">>, <<"allowed_tools">>}
    /\ <<"prompt">> \in DOMAIN doc.o
    /\ doc.o[<<"prompt">>].type = "string"
    /\ <<"model">> \in DOMAIN doc.o =>
          \E i \in 1 .. Len(CONFIG_MODELS) : doc.o[<<"model">>] = CONFIG_MODELS[i]
    /\ <<"allowed_tools">> \in DOMAIN doc.o =>
          /\ doc.o[<<"allowed_tools">>].type = "array"
          /\ \A i \in 1 .. Len(doc.o[<<"allowed_tools">>].a) :
                doc.o[<<"allowed_tools">>].a[i].type = "string"

Validators ==
    {"validate_pretooluse_input", "validate_pretooluse_output", "validate_config_yaml"}

\* the validator of that name applied to the document
Validate(name, doc) ==
    CASE name = "validate_pretooluse_input" -> validate_pretooluse_input(doc)
      [] name = "validate_pretooluse_output" -> validate_pretooluse_output(doc)
      [] name = "validate_config_yaml" -> validate_config_yaml(doc)

\* the document conforms to the schema of the validator of that name
Conforms(name, doc) ==
    CASE name = "validate_pretooluse_input" ->
            doc.type = "object" /\ ValidInputFields(doc)
      [] name = "validate_pretooluse_output" -> ValidOutput(doc)
      [] name = "validate_config_yaml" -> ValidConfig(doc)

\* C21: a validator called on a document that conforms to its schema
\* returns that document, nothing added, removed or changed, and validating
\* what it returned gives the same result again; whatever a validator
\* returns is its argument.
C21_ValidationNoOp ==
    fn \in Validators =>
        /\ Conforms(fn, argument) =>
              /\ result.raises = "none"
              /\ result.v = argument
              /\ Validate(fn, result.v) = result
        /\ result.raises = "none" => result.v = argument

\* validate_config_yaml returned a configuration with all three keys
C21_Witness ==
    /\ fn = "validate_config_yaml"
    /\ argument.type = "object"
    /\ DOMAIN argument.o = {<<"prompt">>, <<"model">>, <<"allowed_tools">>}
    /\ result.raises = "none"
    /\ result.v = argument

\* the document written by json.dumps and read back validates against the
\* output schema
RoundTrips(doc) ==
    LET parsed == json_loads(json_dumps(doc)) IN
    /\ parsed.ok
    /\ validate_pretooluse_output(parsed.v).raises = "none"

\* a bare object whose permissionDecision is allow, deny or ask or absent
\* and whose permissionDecisionReason is a string or absent
NormalizableObject(doc) ==
    /\ doc.type = "object"
    /\ <<"hookSpecificOutput">> \notin DOMAIN doc.o
    /\ <<"permissionDecision">> \in DOMAIN doc.o =>
          doc.o[<<"permissionDecision">>] \in
              {JString(<<"allow">>), JString(<<"deny">>), JString(<<"ask">>)}
    /\ <<"permissionDecisionReason">> \in DOMAIN doc.o =>
          doc.o[<<"permissionDecisionReason">>].type = "string"

\* C22: the deny document create_error_output builds for any reason, and
\* the envelope _wrap_output_if_needed builds from an object whose
\* permissionDecision is allow, deny, ask or absent and whose
\* permissionDecisionReason is a string or absent, validate against the
\* output schema after json.dumps and json.loads.
C22_RoundTrip ==
    /\ fn = "create_error_output" => RoundTrips(result.v)
    /\ (fn = "_wrap_output_if_needed" /\ NormalizableObject(argument)) =>
          (result.raises = "none" /\ RoundTrips(result.v))

\* create_error_output was called on a reason with a backslash and a
\* double quote in it
C22_Witness ==
    /\ fn = "create_error_output"
    /\ \E i \in 1 .. Len(argument) : argument[i] = Q
    /\ \E i \in 1 .. Len(argument) : argument[i] = BACKSLASH
    /\ RoundTrips(result.v)
    /\ json_loads(json_dumps(result.v)).v = result.v

\* C23: once load_config(path) is over, either it returned a document that
\* conforms to the configuration schema or it raised ConfigError and no
\* other exception type.
C23_ValidOrConfigError ==
    (args.config # "None" /\ pc \notin {"parse_args", "load_config"}) =>
        \/ ValidConfig(config)
        \/ config = Unset /\ caught.raises = "ConfigError"

\* the reply parsed, and what it parsed to is not a document that the
\* output schema accepts once normalized
FailsOutputSchema(text) ==
    LET parsed == json_loads(text) IN
    /\ parsed.ok
    /\ \/ parsed.v.type # "object"
       \/ validate_pretooluse_output(wrap_output_if_needed(parsed.v).v).raises # "none"

\* an empty reply, a parse failure or a schema failure
FailedReply(text) ==
    IsEmptyReply(text) \/ IsUnparseable(text) \/ FailsOutputSchema(text)

CorrectiveTemplates == {"provide_valid_json", "not_valid_json", "schema_mismatch"}

\* C24: an exception (other than a failure of the client itself) leaves the
\* judgment call only after exactly 3 turns have been received, and a failed
\* reply on attempt 1 or 2 is answered by a corrective query, with nothing
\* raised.
C24_RaisedOnlyAfterExhaustion ==
    /\ (JudgeEnded /\ ~Interrupted /\ outcome.raises # "none") =>
          NumReceived = MAX_RETRY_ATTEMPTS
    /\ \A k \in 1 .. MAX_RETRY_ATTEMPTS - 1 :
          (/\ ~Interrupted
           /\ NumReceived = k
           /\ Len(log) = 2 * k
           /\ pc # "check"
           /\ FailedReply(Reply(k))) =>
              /\ outcome = Pending
              /\ pc = "query"
              /\ attempt = k
              /\ next_msg.template \in CorrectiveTemplates

\* C25: when the third turn ended the call, NoResponseError is raised
\* exactly when the third reply was empty, InvalidJSONError exactly when it
\* was not empty and failed JSON parsing, and SchemaValidationError exactly
\* when it parsed and failed the output schema.
C25_ThirdAttemptDecides ==
    (JudgeEnded /\ ~Interrupted /\ NumReceived = MAX_RETRY_ATTEMPTS) =>
        /\ outcome.raises = "NoResponseError" <=> IsEmptyReply(Reply(3))
        /\ outcome.raises = "InvalidJSONError" <=> IsUnparseable(Reply(3))
        /\ outcome.raises = "SchemaValidationError" <=> FailsOutputSchema(Reply(3))

\* C26: the corrective query sent after turn k reports the failure of reply
\* k: the fixed instruction after an empty reply, the error of parsing reply
\* k after a parse failure, the error of validating reply k after a schema
\* failure.
C26_CorrectiveMatchesFailure ==
    \A k \in 1 .. MAX_RETRY_ATTEMPTS - 1 :
        Len(log) >= 2 * k + 1 =>
            LET text == Reply(k)
                msg == log[2 * k + 1].msg
                parsed == json_loads(text) IN
            /\ IsEmptyReply(text) => msg = Message("provide_valid_json", <<>>)
            /\ IsUnparseable(text) => msg = Message("not_valid_json", <<parsed.err>>)
            /\ FailsOutputSchema(text) =>
                  msg = Message("schema_mismatch",
                                StrOf(validate_pretooluse_output(
                                          wrap_output_if_needed(parsed.v).v)))
            /\ msg.template \in CorrectiveTemplates

\* two parse failures with different errors: the second corrective query
\* reports the second error, not the first
C26_Witness ==
    /\ Len(log) >= 5
    /\ IsUnparseable(Reply(1))
    /\ IsUnparseable(Reply(2))
    /\ json_loads(Reply(1)).err # json_loads(Reply(2)).err
    /\ log[3].msg = Message("not_valid_json", <<json_loads(Reply(1)).err>>)
    /\ log[5].msg = Message("not_valid_json", <<json_loads(Reply(2)).err>>)

\* C27: when the judgment call has returned a Decision or raised a
\* classified failure, as many queries were sent as turns were received
\* (attempt + 1 of each on a return, 3 of each on a classified failure); at
\* no time have more than 3 queries been sent.
C27_QueriesEqualTurns ==
    /\ NumSent <= MAX_RETRY_ATTEMPTS
    /\ (JudgeEnded /\ outcome.raises \in {"none"} \cup ClassifiedErrors) =>
          /\ NumSent = NumReceived
          /\ outcome.raises = "none" => NumSent = attempt + 1
          /\ outcome.raises \in ClassifiedErrors => NumSent = MAX_RETRY_ATTEMPTS
          /\ log[Len(log)].op = "receive"

\* a classified failure after three queries and three turns
C27_Witness ==
    /\ pc = "exited"
    /\ outcome.raises \in ClassifiedErrors
    /\ NumSent = 3
    /\ NumReceived = 3

\* the judgment was started: options were built, a session was opened or a
\* query was sent
JudgmentStarted == options # Unset \/ session # "none" \/ opened > 0 \/ log # <<>>

\* C28: the judgment is started only with a configuration that loaded and a
\* stdin document that parsed and passed input validation, the
\* configuration first; when the configuration fails to load, stdin is not
\* read, no judgment is started and a deny document with the configuration
\* error reason is printed.
C28_ValidatedBeforeJudgment ==
    /\ JudgmentStarted =>
          /\ ValidConfig(config)
          /\ input_data # Unset
          /\ input_data.type = "object"
          /\ ValidInputFields(input_data)
    /\ input_data # Unset => ValidConfig(config)
    /\ pc \notin {"parse_args", "load_config"} /\ escaped = "none" =>
          (ValidConfig(config) \/ caught.raises # "pending")
    /\ caught.raises = "ConfigError" =>
          /\ ~JudgmentStarted
          /\ input_data = Unset
          /\ Len(stdout) = 1
          /\ PrintedDecision(stdout[1]) = PERMISSION_DENY
          /\ Head(PrintedReason(stdout[1])) = REASON_CONFIG

\* a run with an invalid configuration ended without a judgment
C28_Witness ==
    /\ pc = "exited"
    /\ args.config = "badmodel.yaml"
    /\ caught.raises = "ConfigError"
    /\ ~JudgmentStarted
    /\ PrintedDecision(stdout[1]) = PERMISSION_DENY

\* a reply of whitespace characters only
IsWhitespaceOnly(text) == text # <<>> /\ \A i \in 1 .. Len(text) : text[i] \in WHITESPACE

C30_ConfigReachesOptions ==
    options # Unset =>
        /\ options["max_turns"] = JNumber(MAX_RETRY_ATTEMPTS)
        /\ \A key \in {"model", "allowed_tools"} :
              /\ key \in DOMAIN options <=> <<key>> \in DOMAIN config.o
              /\ key \in DOMAIN options => options[key] = config.o[<<key>>]

RECURSIVE Concatenation(_)
\* the texts of a sequence of blocks, one after the other
Concatenation(blocks) ==
    IF blocks = <<>> THEN <<>>
    ELSE Head(blocks).text \o Concatenation(Tail(blocks))

IsTextBlock(block) == block.type = "TextBlock"

RECURSIVE TurnText(_)
\* the text of every text block of every assistant message of a sequence of
\* messages, in arrival order
TurnText(messages) ==
    IF messages = <<>> THEN <<>>
    ELSE (IF Head(messages).type = "AssistantMessage"
          THEN Concatenation(SelectSeq(Head(messages).content, IsTextBlock))
          ELSE <<>>)
         \o TurnText(Tail(messages))

\* a query starts a turn with no text received; each message received adds
\* its text blocks if it is an assistant message and nothing otherwise; the
\* reply is checked when the ResultMessage of the turn has been received
ReplyStep ==
    /\ (pc = "query" /\ pc' = "receive") =>
          (response_text' = <<>> /\ inflight' \in Turns)
    /\ (pc = "receive" /\ pc' \in {"receive", "check"}) =>
          /\ inflight' = Tail(inflight)
          /\ response_text' = response_text \o TurnText(<<Head(inflight)>>)
          /\ response_text' \o TurnText(inflight') = response_text \o TurnText(inflight)
          /\ pc' = "check" <=> Head(inflight).type = "ResultMessage"
          /\ pc' = "check" =>
                (log' = Append(log, Received(response_text')) /\ inflight' = <<>>)
    /\ (pc = "check" /\ response_text = <<>> /\ pc' # "check") =>
          \/ pc' = "query" /\ next_msg' = Message("provide_valid_json", <<>>)
          \/ outcome'.raises = "NoResponseError"

\* C31: the reply checked in a round is the concatenation, in arrival
\* order, of the text of every text block of every assistant message of the
\* turn; other blocks and other messages add nothing, and a turn without a
\* text block gives the empty reply, which is handled as no response.
C31_ReplyIsConcatenation == [][ReplyStep]_vars

\* a turn whose assistant message holds a tool-use block only and whose
\* user message holds a text block: no text was received so far
C31_Witness ==
    /\ pc = "receive"
    /\ response_text = <<>>
    /\ inflight = <<UserMessage(<<TextBlock(BareAllow)>>), ResultMessage>>

(***************************************************************************)
(* Termination.  Every send completes and every turn is ended by its       *)
(* ResultMessage: the awaits of the client are not interrupted, and each   *)
(* step of main() that can be taken is eventually taken.                   *)
(***************************************************************************)
NextLive ==
    \/ ParseArgs
    \/ LoadConfig
    \/ ReadInput
    \/ OpenSession
    \/ Query
    \/ ReceiveMessage
    \/ Check
    \/ CloseSession
    \/ Finish

\* the places of main() and of the judgment call where a step is waiting
\* to be taken
Locations ==
    {"parse_args", "load_config", "read_input", "open_session", "query",
     "check", "close", "finish"}

\* the step at a place is taken: every action is enabled exactly at its
\* place and leaves it
Advance(loc) == pc = loc /\ pc' \in (Locations \cup {"receive", "exited"}) \ {loc}

\* the next message of the turn in flight is received
TakeMessage ==
    /\ pc = "receive"
    /\ inflight # <<>>
    /\ inflight' = Tail(inflight)
    /\ pc' \in {"receive", "check"}

\* a sequential program: the step that can be taken is eventually taken
Fairness ==
    /\ \A loc \in Locations : WF_pc(Advance(loc))
    /\ WF_<<pc, inflight>>(TakeMessage)

SpecLive == Init /\ [][NextLive]_vars /\ Fairness

\* C32: every judgment call eventually ends after at most 3 rounds and
\* every run of main() eventually ends with its Decision printed.
C32_EventuallyPrintsDecision ==
    /\ [](NumReceived <= MAX_RETRY_ATTEMPTS)
    /\ [](pc \in {"query", "receive", "check"} => <>JudgeEnded)
    /\ <>(pc = "exited" /\ Len(stdout) = 1 /\ WellFormedDecision(stdout[1]))

\* every run of main() eventually ends, and every judgment call ends after
\* at most 3 rounds
Terminates ==
    /\ [](NumReceived <= MAX_RETRY_ATTEMPTS)
    /\ [](pc \in {"query", "receive", "check"} => <>JudgeEnded)
    /\ <>(pc = "exited")

\* the top-level fields an output document may have beside its envelope
SIBLING_FIELDS == {<<"continue">>, <<"stopReason">>, <<"suppressOutput">>, <<"systemMessage">>}

\* the fields of a bare object that the normalizer reads
DECISION_FIELDS == {<<"permissionDecision">>, <<"permissionDecisionReason">>}

\* C33: from a bare object the normalizer keeps nothing but the decision and
\* the reason: its result has the envelope as its only key and the envelope
\* has hookEventName, permissionDecision and permissionDecisionReason only,
\* so an updatedInput and the sibling fields continue, stopReason,
\* suppressOutput and systemMessage of the bare object are gone; from an
\* object with the envelope every key, at the top level and in the
\* envelope, comes back with its value.
C33_BareObjectLosesFields ==
    (fn = "_wrap_output_if_needed" /\ argument.type = "object") =>
        IF <<"hookSpecificOutput">> \in DOMAIN argument.o
        THEN /\ DOMAIN result.v.o = DOMAIN argument.o
             /\ \A k \in DOMAIN argument.o : result.v.o[k] = argument.o[k]
        ELSE /\ DOMAIN result.v.o \cap (SIBLING_FIELDS \cup {<<"updatedInput">>}) = {}
             /\ DOMAIN result.v.o \cap DOMAIN argument.o = {}
             /\ \A k \in DOMAIN result.v.o :
                   /\ result.v.o[k].type = "object"
                   /\ DOMAIN result.v.o[k].o =
                         {<<"hookEventName">>} \cup DECISION_FIELDS
                   /\ \A f \in DOMAIN argument.o \ DECISION_FIELDS :
                         \A g \in DOMAIN result.v.o[k].o :
                             result.v.o[k].o[g] # argument.o[f]

\* a bare object with a decision, an updatedInput and the four sibling
\* fields came back as an envelope without them
C33_Witness ==
    /\ fn = "_wrap_output_if_needed"
    /\ argument.type = "object"
    /\ DOMAIN argument.o =
          {<<"permissionDecision">>, <<"updatedInput">>} \cup SIBLING_FIELDS
    /\ result.raises = "none"
    /\ DOMAIN result.v.o = {<<"hookSpecificOutput">>}
    /\ <<"updatedInput">> \notin DOMAIN result.v.o[<<"hookSpecificOutput">>].o

(***************************************************************************)
(* Two judgment calls run side by side, judge_pretooluse_async awaited     *)
(* twice in one event loop.  Each call has its own client and its own      *)
(* locals (attempt, response_text, the corrective message); a step of the  *)
(* specification is the progress of one call from one await to the next.   *)
(***************************************************************************)
Calls == {1, 2}

\* the replies of the LLM in the sessions of the two calls
PairTexts == {<<>>, WhitespaceOnly, EnvNoReason, BareAllow, JsonNull}

PairTurns == {PlainTurn(text) : text \in PairTexts}

\* the input document of the calls
PairInput == validate_pretooluse_input(json_loads(ValidInput).v).v

\* the locals of a call that has entered `async with` and is about to send
\* its first query; replies and sent are the history of its session
NewTask ==
    [pc |-> "query", attempt |-> 0, next_msg |-> user_prompt(PairInput),
     inflight |-> <<>>, response_text |-> <<>>, outcome |-> Pending,
     replies |-> <<>>, sent |-> <<>>]

InitPair == InitProcess /\ tasks = [c \in Calls |-> NewTask]

\* call c: await client.query(...)
TaskQuery(c) ==
    /\ tasks[c].pc = "query"
    /\ \E turn \in PairTurns :
          tasks' = [tasks EXCEPT ![c] =
                      [@ EXCEPT !.inflight = turn,
                                !.sent = Append(@, tasks[c].next_msg),
                                !.response_text = <<>>,
                                !.pc = "receive"]]
    /\ UNCHANGED <<pc, mainVars, judgeVars, exitVars, fn, argument, result>>

\* call c: one round of the `async for` of _receive_text_response
TaskReceive(c) ==
    /\ tasks[c].pc = "receive"
    /\ tasks[c].inflight # <<>>
    /\ LET message == Head(tasks[c].inflight)
           text == IF message.type = "AssistantMessage"
                   THEN tasks[c].response_text \o BlocksText(message.content)
                   ELSE tasks[c].response_text
       IN  tasks' = [tasks EXCEPT ![c] =
                       IF message.type = "ResultMessage"
                       THEN [@ EXCEPT !.inflight = Tail(@),
                                      !.response_text = text,
                                      !.replies = Append(@, text),
                                      !.pc = "check"]
                       ELSE [@ EXCEPT !.inflight = Tail(@),
                                      !.response_text = text]]
    /\ UNCHANGED <<pc, mainVars, judgeVars, exitVars, fn, argument, result>>

\* mutant: the attempt counter is a module-level variable that every call
\* counts on
TaskCheck_SharedAttempt(c) ==
    /\ tasks[c].pc = "check"
    /\ LET r == CheckReply(tasks[c].response_text) IN
       IF r.kind \in {"return", "raise"}
       THEN tasks' = [tasks EXCEPT ![c] = [@ EXCEPT !.outcome = r.result, !.pc = "done"]]
       ELSE IF tasks[c].attempt < MAX_RETRY_ATTEMPTS - 1
       THEN tasks' = [d \in Calls |->
                        IF d = c
                        THEN [tasks[d] EXCEPT !.next_msg = r.corrective,
                                              !.attempt = @ + 1,
                                              !.pc = "query"]
                        ELSE [tasks[d] EXCEPT !.attempt = @ + 1]]
       ELSE tasks' = [tasks EXCEPT ![c] = [@ EXCEPT !.outcome = r.exc, !.pc = "done"]]
    /\ UNCHANGED <<pc, mainVars, judgeVars, exitVars, fn, argument, result>>

\* call c: the body of the retry loop after the turn was received
TaskCheck(c) ==
    /\ tasks[c].pc = "check"
    /\ LET r == CheckReply(tasks[c].response_text) IN
       tasks' = [tasks EXCEPT ![c] =
                   IF r.kind \in {"return", "raise"}
                   THEN [@ EXCEPT !.outcome = r.result, !.pc = "done"]
                   ELSE IF tasks[c].attempt < MAX_RETRY_ATTEMPTS - 1
                   THEN [@ EXCEPT !.next_msg = r.corrective,
                                  !.attempt = @ + 1,
                                  !.pc = "query"]
                   ELSE [@ EXCEPT !.outcome = r.exc, !.pc = "done"]]
    /\ UNCHANGED <<pc, mainVars, judgeVars, exitVars, fn, argument, result>>

NextPair ==
    \/ \E c \in Calls : TaskQuery(c)
    \/ \E c \in Calls : TaskReceive(c)
    \/ \E c \in Calls : TaskCheck(c)

SpecPair == InitPair /\ [][NextPair]_vars

RECURSIVE RunAlone(_, _)
\* what a call run alone returns or raises on a sequence of replies, from
\* its k-th reply on; Pending when the replies do not bring it to its end
RunAlone(replies, k) ==
    IF k > Len(replies) THEN Pending
    ELSE LET text == replies[k]
             parsed == json_loads(text) IN
         IF IsEmptyReply(text)
         THEN IF k < MAX_RETRY_ATTEMPTS THEN RunAlone(replies, k + 1)
              ELSE Raises("NoResponseError", Message("no_response", <<>>))
         ELSE IF ~parsed.ok
         THEN IF k < MAX_RETRY_ATTEMPTS THEN RunAlone(replies, k + 1)
              ELSE Raises("InvalidJSONError", Message("failed_to_parse", <<parsed.err>>))
         ELSE LET wrapped == wrap_output_if_needed(parsed.v)
                  validated == validate_pretooluse_output(wrapped.v) IN
              IF wrapped.raises # "none" THEN wrapped
              ELSE IF validated.raises = "none" THEN Returns(wrapped.v)
              ELSE IF k < MAX_RETRY_ATTEMPTS THEN RunAlone(replies, k + 1)
              ELSE Raises("SchemaValidationError",
                          Message("failed_to_get_valid_output", StrOf(validated)))

\* the replies the finished judgment call of main() received, in order
RepliesOfLog == [k \in 1 .. NumReceived |-> log[2 * k].text]

\* the judgment call of main(), run alone, ends as RunAlone says
AloneAsRunAlone ==
    (JudgeEnded /\ ~Interrupted) => outcome = RunAlone(RepliesOfLog, 1)

\* C34: every call's outcome is the outcome of a call run alone on the
\* replies that call received, whatever the other call did in between, and
\* its attempt counter counts its own turns only.
C34_NoInterference ==
    \A c \in Calls :
        /\ tasks[c].pc \in {"query", "receive"} =>
              Len(tasks[c].replies) = tasks[c].attempt
        /\ tasks[c].pc \in {"check", "done"} =>
              Len(tasks[c].replies) = tasks[c].attempt + 1
        /\ Len(tasks[c].sent) \in {Len(tasks[c].replies), Len(tasks[c].replies) + 1}
        /\ tasks[c].pc = "done" <=> tasks[c].outcome # Pending
        /\ tasks[c].pc = "done" => tasks[c].outcome = RunAlone(tasks[c].replies, 1)
        /\ tasks[c].pc # "done" =>
              RunAlone(SubSeq(tasks[c].replies, 1, tasks[c].attempt), 1) = Pending

\* call 2 returned on its first reply while call 1, after two failed
\* replies of its own, is waiting for its third turn
C34_Witness ==
    /\ tasks[1].pc = "receive"
    /\ tasks[1].attempt = 2
    /\ tasks[1].replies = <<<<>>, EnvNoReason>>
    /\ tasks[2].pc = "done"
    /\ tasks[2].replies = <<BareAllow>>
    /\ tasks[2].outcome.raises = "none"

\* the text has no triple backtick and, with the whitespace around it taken
\* off, is empty, or starts with "{" and either has no "}" or ends with "}"
CleanText(text) ==
    LET trimmed == Trimmed(text) IN
    /\ ~ContainsTripleBacktick(text)
    /\ \/ trimmed = <<>>
       \/ /\ trimmed[1] = "{"
          /\ \/ \A i \in 1 .. Len(trimmed) : trimmed[i] # "}"
             \/ trimmed[Len(trimmed)] = "}"

\* C35: _validate_response_format raises nothing exactly on the texts that
\* have no triple backtick and whose trimmed form is empty, or starts with
\* "{" and either has no "}" or ends with "}"; so it passes every JSON
\* object without a triple backtick, passes a text that starts with "{" and
\* has no "}", and refuses a JSON object with a triple backtick in a string.
C35_PassesExactlyCleanTexts ==
    fn = "_validate_response_format" =>
        /\ result.raises = "none" <=> CleanText(argument)
        /\ (IsObjectReply(argument) /\ ~ContainsTripleBacktick(argument)) =>
              result = Returns(JNull)
        /\ (IsObjectReply(argument) /\ ContainsTripleBacktick(argument)) =>
              result.raises = "CodeFenceInResponseError"

\* the checker passed a text that starts with "{", has no "}" and goes on
\* with prose
C35_Witness ==
    /\ fn = "_validate_response_format"
    /\ Len(argument) > 3
    /\ argument[1] = "{"
    /\ \A i \in 1 .. Len(argument) : argument[i] # "}"
    /\ ~json_loads(argument).ok
    /\ result = Returns(JNull)

=============================================================================
